---------------------------- MODULE Spec2Model ----------------------------
(***************************************************************************)
(* Graphify: the schedule mapper (mapPatternToSchedule), the batched       *)
(* executor (processBatchedCommits), the date helpers                      *)
(* (adjustDateForAuthenticity, isBusinessHours, isHoliday), the pattern    *)
(* validator, the authenticity checker, the commit command and the runner  *)
(* of the command line, and the schedule service of the backend, each      *)
(* modelled as a state machine over its own variables.                     *)
(*                                                                         *)
(* Time.  A calendar day is an integer, day 0 being Wednesday 2025-01-01   *)
(* in local time.  An instant is a number of seconds since the local       *)
(* midnight of day 0.  Real numbers of the source (density, the noise      *)
(* factor) are kept in tenths, so 0.7 is 7.                                *)
(***************************************************************************)
EXTENDS Integers, Sequences, FiniteSets, TLC

VARIABLES
  \* ---- mapPatternToSchedule (shared/src/utils/scheduler.ts)
  options,           \* the CommitScheduleOptions argument
  mpc,               \* position of the call: idle, call, loop, returned, threw
  row, col,          \* the two loop counters
  scheduledCommits,  \* the local array, and the returned value once mpc = "returned"
  cellLog,           \* per processed cell: what the cell's iteration did
  \* ---- processBatchedCommits (shared/src/utils/scheduler.ts)
  items,             \* per item, how processFn behaves on it: ok, reject, throw
  batchSize,         \* the batchSize option
  bpc,               \* position of the call
  i,                 \* the loop counter of the batch loop
  ist,               \* per item, the state of its async callback
  results,           \* the accumulating { succeeded, failed, errors }
  progress,          \* the onProgress calls so far, <<processed, total>> each
  \* ---- adjustDateForAuthenticity (graphify-cli)
  impl,              \* which of the two implementations is called
  aopts,             \* avoidWeekends, workHoursOnly, avoidHolidays
  ainput,            \* the date first passed in: [day, hour, minute, second]
  adate,             \* the date of the current (possibly recursive) call / result
  apc,               \* idle, call, adjusted, returned
  \* ---- validatePattern (shared/src/utils/pattern-utils.ts, graphify-cli git-utils.ts)
  vimpl,             \* which of the two implementations is called
  grid,              \* the pattern argument
  issues,            \* the returned issues
  vpc,               \* idle, call, returned
  \* ---- checkScheduleAuthenticity (shared/src/utils/scheduler.ts)
  commits,           \* the schedule argument: the dates of the commits, in seconds
  cissues,           \* the returned issues
  cpc,               \* idle, call, returned
  \* ---- isBusinessHours and isHoliday (graphify-cli commands/date.ts, utils/date-utils.ts)
  himpl,             \* which of the two implementations is called
  hdate,             \* the date argument
  hresult,           \* the returned boolean
  hpc,               \* idle, call, returned
  \* ---- the commit command (graphify-cli commands/commit-command.ts)
  cmdOptions,        \* the options of the command line: pattern, dryRun, push
  cmdPc,             \* position of the action handler
  calls,             \* the functions the handler has called so far, in order
  exitCode,          \* the argument of process.exit, -1 while the process runs
  \* ---- executeScheduledCommits (graphify-cli utils/git-utils.ts)
  scheduled,         \* the commits argument: [date, id] each, id the place in the argument
  sortedCommits,     \* the sorted copy
  ci,                \* the loop counter i
  successCount,
  failureCount,
  errors,            \* the error lines: the number i + 1 of the commit, 0 for the closing line
  attempted,         \* the commits executeGitOperations has been called on, in order
  rpc,               \* idle, call, check, loop, attempt, broke, returned, threw
  \* ---- the backend: ScheduleService (backend/src/schedule.service.ts)
  commitTable,       \* the rows of "Commit", by id: [scheduleId, due, status]
  scheduleTable,     \* the status of the rows of "Schedule", by id
  tokenValid,        \* whether the user has an AuthSession that has not expired
  pendingCommits,    \* executeScheduledCommits: the ids of the rows its query returned
  markIndex,         \* markCommitsAsFailed: the rows marked so far
  cst,               \* per row, the position of its executeCommit: new, running, pushed, done, failed
  github,            \* the rows whose commit has been created on GitHub
  xpc,               \* executeScheduledCommits: idle, call, auth, marking, batch, returned
  cancelId,          \* the argument of cancelSchedule
  cancelPc           \* cancelSchedule: idle, call, commits, schedule, returned

mvars == <<options, mpc, row, col, scheduledCommits, cellLog>>
bvars == <<items, batchSize, bpc, i, ist, results, progress>>
avars == <<impl, aopts, ainput, adate, apc>>
pvars == <<vimpl, grid, issues, vpc>>
cvars == <<commits, cissues, cpc>>
hvars == <<himpl, hdate, hresult, hpc>>
kvars == <<cmdOptions, cmdPc, calls, exitCode>>
rvars == <<scheduled, sortedCommits, ci, successCount, failureCount, errors, attempted, rpc>>
svars == <<commitTable, scheduleTable, tokenValid, pendingCommits, markIndex, cst, github, xpc, cancelId, cancelPc>>
vars == <<mvars, bvars, avars, pvars, cvars, hvars, kvars, rvars, svars>>

\* what a step of one function leaves alone: the variables of the other functions
mrest == <<bvars, avars, pvars, cvars, hvars, kvars, rvars, svars>>
brest == <<mvars, avars, pvars, cvars, hvars, kvars, rvars, svars>>
arest == <<mvars, bvars, pvars, cvars, hvars, kvars, rvars, svars>>
prest == <<mvars, bvars, avars, cvars, hvars, kvars, rvars, svars>>
crest == <<mvars, bvars, avars, pvars, hvars, kvars, rvars, svars>>
hrest == <<mvars, bvars, avars, pvars, cvars, kvars, rvars, svars>>
krest == <<mvars, bvars, avars, pvars, cvars, hvars, rvars, svars>>
rrest == <<mvars, bvars, avars, pvars, cvars, hvars, kvars, svars>>
srest == <<mvars, bvars, avars, pvars, cvars, hvars, kvars, rvars>>

-----------------------------------------------------------------------------
(* Bounds of the model *)

\* largest number of cells (rows * cols) of a pattern
MaxCells == 2
\* largest whole number of days between startDate and endDate
MaxDays == 4
\* largest number of items handed to processBatchedCommits
MaxItems == 4
\* largest batchSize
MaxBatchSize == 3
\* the onProgress log keeps at most this many calls (a batch loop that never
\* advances goes on calling onProgress)
MaxProgress == 4
\* number of calendar years, from 2025 on, the adjusted dates are drawn from
NumYears == 1

\* cell values: a negative one, the empty one, a positive one
Intensities == {-1, 0, 2}
\* density in tenths: a negative one, zero, the default 0.7
Densities == {-10, 0, 7}
\* maxCommitsPerDay
Caps == {-1, 0, 1, 5}
\* days the schedule can start on: Friday 2025-01-03
StartDays == {2}
\* values of (0.5 + Math.random()), in tenths: the range is [0.5, 1.5)
NoiseSamples == {5, 14}
\* values of Math.floor(Math.random() * 8), of Math.floor(Math.random() * 24)
Floor8Samples == {0, 7}
Floor24Samples == {0, 23}
\* values of Math.floor(Math.random() * 60): the minute, the second
MinuteSamples == {30}
SecondSamples == {0}

\* validatePattern: the most cells, and the most rows, of the small grids
MaxGridCells == 3
MaxGridRows == 2

\* pattern-utils.ts line 38: the number of cells above which a pattern is large
SizeLimit == 365

\* checkScheduleAuthenticity: the most runs of commits a schedule is made of
MaxRuns == 2

\* scheduler.ts line 159: the most commits of a day that are not suspicious
DailyLimit == 15
\* scheduler.ts line 187: the most commits whose equal spacing is not suspicious
UniformLimit == 5
\* scheduler.ts line 197: the share of commits, in percent, at the late-night hours
\* that is not suspicious (0.25)
LateNightPercent == 25

\* executeScheduledCommits: the short lists hold up to MaxShort commits, the long
\* ones up to MaxLong
MaxShort == 3
MaxLong == 11
\* line 100 of git-utils.ts: the errors kept, and the length above which a list is long
ErrorLimit == 5
LongRun == 10

\* the backend: the rows of the "Commit" table and the schedules they belong to
MaxCommitRows == 2
NumSchedules == 2

-----------------------------------------------------------------------------
(* Arithmetic of the source language *)

\* Math.ceil(a / b) for b > 0
Ceil(a, b) == -((-a) \div b)

\* Math.floor(a / b) for b > 0
Floor(a, b) == a \div b

\* the remainder operator %, which takes the sign of the dividend
JSRem(a, b) == IF a >= 0 THEN a % b ELSE -((-a) % b)

Min(a, b) == IF a <= b THEN a ELSE b
Max(a, b) == IF a >= b THEN a ELSE b

SecondsPerDay == 86400

-----------------------------------------------------------------------------
(* Calendar *)

\* the year the dates are drawn from; January 1 of it is day 0, a Wednesday
BaseYear == 2025

IsLeap(y) == (y % 4 = 0 /\ y % 100 # 0) \/ y % 400 = 0

DaysInYear(y) == IF IsLeap(y) THEN 366 ELSE 365

DaysInMonth(y, m) ==
  CASE m = 1 -> IF IsLeap(y) THEN 29 ELSE 28
    [] m \in {3, 5, 8, 10} -> 30
    [] OTHER -> 31

\* Date.getDay(): 0 = Sunday ... 6 = Saturday; day 0 is a Wednesday
GetDay(d) == (d + 3) % 7

RECURSIVE YearStart(_)
\* the day number of January 1 of year y
YearStart(y) ==
  IF y = BaseYear THEN 0
  ELSE IF y > BaseYear THEN YearStart(y - 1) + DaysInYear(y - 1)
  ELSE YearStart(y + 1) - DaysInYear(y)

RECURSIVE YearFrom(_, _)
YearFrom(d, y) ==
  IF d < YearStart(y) THEN YearFrom(d, y - 1)
  ELSE IF d >= YearStart(y) + DaysInYear(y) THEN YearFrom(d, y + 1)
  ELSE y

\* Date.getFullYear()
GetFullYear(d) == YearFrom(d, BaseYear)

RECURSIVE MonthFrom(_, _, _)
\* <<month (0-11), day of month (1-31)>> of the n-th day (0-based) of year y
MonthFrom(y, m, n) ==
  IF n < DaysInMonth(y, m) THEN <<m, n + 1>> ELSE MonthFrom(y, m + 1, n - DaysInMonth(y, m))

\* Date.getMonth(), 0-11
GetMonth(d) == MonthFrom(GetFullYear(d), 0, d - YearStart(GetFullYear(d)))[1]

\* Date.getDate(), 1-31
GetDate(d) == MonthFrom(GetFullYear(d), 0, d - YearStart(GetFullYear(d)))[2]

RECURSIVE MonthStart(_, _)
\* days of year y before month m (0-11)
MonthStart(y, m) == IF m = 0 THEN 0 ELSE MonthStart(y, m - 1) + DaysInMonth(y, m - 1)

\* new Date(y, m, dd), as a day number; dd = 0 is the last day of month m - 1
NewDate(y, m, dd) == YearStart(y) + MonthStart(y, m) + dd - 1

-----------------------------------------------------------------------------
(* mapPatternToSchedule: helpers *)

\* isWeekend(date): Saturday or Sunday
isWeekend(d) == GetDay(d) = 0 \/ GetDay(d) = 6

RECURSIVE InsertTime(_, _)
\* t put into the ascending sequence s, after the elements equal to it
InsertTime(s, t) ==
  IF s = <<>> THEN <<t>>
  ELSE IF t < Head(s) THEN <<t>> \o s
  ELSE <<Head(s)>> \o InsertTime(Tail(s), t)

RECURSIVE SortTimes(_)
\* result.sort((a, b) => a.toMillis() - b.toMillis())
SortTimes(s) ==
  IF s = <<>> THEN <<>> ELSE InsertTime(SortTimes(SubSeq(s, 1, Len(s) - 1)), s[Len(s)])

\* the business hours drawn as 9 + Math.floor(Math.random() * 9): 9 to 17
CommitHoursToFive(workHoursOnly) ==
  { 9 + f : f \in {0, 8} } \cup (IF workHoursOnly THEN {} ELSE Floor24Samples)

\* the hours generateRandomCommitTimes can draw
CommitHours(workHoursOnly) ==
  { 9 + f : f \in Floor8Samples } \cup (IF workHoursOnly THEN {} ELSE Floor24Samples)

\* the clock times (seconds after midnight) generateRandomCommitTimes can draw
CommitClocks(workHoursOnly) ==
  { h * 3600 + m * 60 + s : h \in CommitHours(workHoursOnly), m \in MinuteSamples, s \in SecondSamples }

\* generateRandomCommitTimes(baseDate, count, workHoursOnly) for count >= 0:
\* the values it can return, each a sorted sequence of count instants of baseDay
generateRandomCommitTimes(baseDay, count, workHoursOnly) ==
  { SortTimes([k \in 1..count |-> baseDay * SecondsPerDay + cs[k]]) :
      cs \in [1..count -> CommitClocks(workHoursOnly)] }

RECURSIVE InsertCommitDesc(_, _)
InsertCommitDesc(s, c) ==
  IF s = <<>> THEN <<c>>
  ELSE IF c.date > Head(s).date THEN <<c>> \o s
  ELSE <<Head(s)>> \o InsertCommitDesc(Tail(s), c)

RECURSIVE SortCommitsDesc(_)
\* the sort with its comparator turned round: b.date.toMillis() - a.date.toMillis()
SortCommitsDesc(s) ==
  IF s = <<>> THEN <<>>
  ELSE InsertCommitDesc(SortCommitsDesc(SubSeq(s, 1, Len(s) - 1)), s[Len(s)])

RECURSIVE InsertCommit(_, _)
InsertCommit(s, c) ==
  IF s = <<>> THEN <<c>>
  ELSE IF c.date < Head(s).date THEN <<c>> \o s
  ELSE <<Head(s)>> \o InsertCommit(Tail(s), c)

RECURSIVE SortCommitsAsc(_)
SortCommitsAsc(s) ==
  IF s = <<>> THEN <<>>
  ELSE InsertCommit(SortCommitsAsc(SubSeq(s, 1, Len(s) - 1)), s[Len(s)])

\* scheduledCommits.sort((a, b) => a.date.toMillis() - b.date.toMillis()), a stable sort
SortCommits(s) == SortCommitsAsc(s)

\* const totalDays = Math.ceil(endDt.diff(startDt, 'days').days)
TotalDays(o) == Ceil(o.endDate - o.startDate, SecondsPerDay)

\* totalDays < 0: the range check letting an empty range through
InvalidDateRangeOffByOne(totalDays) == totalDays < 0

\* if (totalDays < 1) throw
InvalidDateRange(totalDays) == totalDays < 1

\* const daysPerCell = Math.max(1, Math.floor(totalDays / (rows * cols)))
DaysPerCell(totalDays, rows, cols) == Max(1, Floor(totalDays, rows * cols))

\* cellIndex * daysPerCell > totalDays: the cell on the first day past the range kept
BeyondRangeOffByOne(cellIndex, daysPerCell, totalDays) == cellIndex * daysPerCell > totalDays

\* if (cellIndex * daysPerCell >= totalDays) break
BeyondRange(cellIndex, daysPerCell, totalDays) == cellIndex * daysPerCell >= totalDays

\* cellValue === 0: only the cells that are exactly zero skipped
IsEmptyCellOnlyZero(cellValue) == cellValue = 0

\* if (cellValue <= 0) continue
IsEmptyCell(cellValue) == cellValue <= 0

\* Math.floor in place of Math.ceil
CommitsForCellFloor(cellValue, density, noise, maxCommitsPerDay) ==
  Min(maxCommitsPerDay, Floor(cellValue * density * noise, 100))

\* Math.min(maxCommitsPerDay, Math.ceil(cellValue * density * noise)),
\* density and noise in tenths
CommitsForCell(cellValue, density, noise, maxCommitsPerDay) ==
  Min(maxCommitsPerDay, Ceil(cellValue * density * noise, 100))

\* the warning given for a range that is no larger than the pattern
WarnsTruncationInclusive(o) == TotalDays(o) <= Len(o.pattern) * Len(o.pattern[1])

\* part_003 lines 22-34, the wrapper of the command line: the warning that cells
\* will be ignored, given when totalDays < rows * cols
WarnsTruncation(o) == TotalDays(o) < Len(o.pattern) * Len(o.pattern[1])

\* the patterns: rows x cols grids of at most MaxCells cells, the grid without
\* rows and the grids whose rows are empty
Patterns ==
  UNION { [1..rc[1] -> [1..rc[2] -> Intensities]] :
            rc \in { x \in (0..Max(MaxCells, 1)) \X (0..MaxCells) : x[1] * x[2] <= MaxCells } }

\* endDate - startDate, in seconds: half a day short, none, half a day, whole days
RangeSeconds == {-43200, 0, 43200} \cup { n * SecondsPerDay : n \in 1..MaxDays }

NoOptions == [pattern |-> <<>>]

NoDate == [day |-> 0, hour |-> 0, minute |-> 0, second |-> 0]

NoAdjustOptions == [avoidWeekends |-> FALSE, workHoursOnly |-> FALSE, avoidHolidays |-> FALSE]

-----------------------------------------------------------------------------
(* mapPatternToSchedule: the call *)

rows == Len(options.pattern)
cols == IF rows = 0 THEN 0 ELSE Len(options.pattern[1])
totalDays == TotalDays(options)
daysPerCell == DaysPerCell(totalDays, rows, cols)
cellIndex == row * cols + col
cellValue == options.pattern[row + 1][col + 1]
\* the date of the cell taken to be the start date, whatever the cell
baseDayOfStart == options.startDate \div SecondsPerDay

\* startDt.plus({ days: dayOffset }), as a day number
baseDay == (options.startDate \div SecondsPerDay) + cellIndex * daysPerCell

LogCell(what, noise, count) ==
  cellLog' = Append(cellLog, [row |-> row, col |-> col, what |-> what, noise |-> noise, count |-> count])

\* lines 61-78: the three checks, each throwing
MapThrowInput ==
  /\ mpc = "call"
  /\ \/ rows = 0
     \/ cols = 0
     \/ InvalidDateRange(totalDays)
  /\ mpc' = "threw"
  /\ UNCHANGED <<options, row, col, scheduledCommits, cellLog, mrest>>

\* lines 61-86: the checks pass and the loops start
MapEnter ==
  /\ mpc = "call"
  /\ rows # 0
  /\ cols # 0
  /\ ~InvalidDateRange(totalDays)
  /\ mpc' = "loop"
  /\ row' = 0
  /\ col' = 0
  /\ scheduledCommits' = <<>>
  /\ UNCHANGED <<options, cellLog, mrest>>

InCell == mpc = "loop" /\ row < rows /\ col < cols

\* lines 89-92: break leaves the inner loop; the outer loop goes on with the next row
MapBreak ==
  /\ InCell
  /\ BeyondRange(cellIndex, daysPerCell, totalDays)
  /\ row' = row + 1
  /\ col' = 0
  /\ LogCell("break", 0, 0)
  /\ UNCHANGED <<options, mpc, scheduledCommits, mrest>>

\* lines 94-95
MapSkipEmpty ==
  /\ InCell
  /\ ~BeyondRange(cellIndex, daysPerCell, totalDays)
  /\ IsEmptyCell(cellValue)
  /\ col' = col + 1
  /\ LogCell("empty", 0, 0)
  /\ UNCHANGED <<options, mpc, row, scheduledCommits, mrest>>

\* lines 102-104: Math.random() > 0.3
MapSkipWeekend ==
  /\ InCell
  /\ ~BeyondRange(cellIndex, daysPerCell, totalDays)
  /\ ~IsEmptyCell(cellValue)
  /\ options.avoidWeekends /\ isWeekend(baseDay)
  /\ col' = col + 1
  /\ LogCell("weekend", 0, 0)
  /\ UNCHANGED <<options, mpc, row, scheduledCommits, mrest>>

\* the cell is neither beyond the range, nor empty, nor skipped as a weekend
\* (a weekend cell is kept when Math.random() <= 0.3)
CellKept ==
  /\ InCell
  /\ ~BeyondRange(cellIndex, daysPerCell, totalDays)
  /\ ~IsEmptyCell(cellValue)

Noises == IF options.randomize THEN NoiseSamples ELSE {10}

\* lines 107-126: the commits of the cell are generated and pushed
MapEmit ==
  /\ CellKept
  /\ \E noise \in Noises :
       LET commitsForCell == CommitsForCell(cellValue, options.density, noise, options.maxCommitsPerDay)
       IN /\ commitsForCell >= 0
          /\ \E commitTimes \in generateRandomCommitTimes(baseDay, commitsForCell, options.workHoursOnly) :
               scheduledCommits' = scheduledCommits \o
                 [k \in 1..Len(commitTimes) |->
                    [date |-> commitTimes[k], weight |-> cellValue, row |-> row, col |-> col]]
          /\ LogCell("emit", noise, commitsForCell)
  /\ col' = col + 1
  /\ UNCHANGED <<options, mpc, row, mrest>>

\* lines 113-117, 134-136: generateRandomCommitTimes throws on a negative count,
\* and the function rethrows: nothing is returned
MapThrowCount ==
  /\ CellKept
  /\ \E noise \in Noises :
       LET commitsForCell == CommitsForCell(cellValue, options.density, noise, options.maxCommitsPerDay)
       IN /\ commitsForCell < 0
          /\ LogCell("throw", noise, commitsForCell)
  /\ mpc' = "threw"
  /\ scheduledCommits' = <<>>
  /\ UNCHANGED <<options, row, col, mrest>>

\* line 87: the inner loop ends, line 86: the next row
MapNextRow ==
  /\ mpc = "loop" /\ row < rows /\ col >= cols
  /\ row' = row + 1
  /\ col' = 0
  /\ UNCHANGED <<options, mpc, scheduledCommits, cellLog, mrest>>

\* lines 130-133: the outer loop ends, the commits are sorted and returned
MapReturn ==
  /\ mpc = "loop" /\ row >= rows
  /\ scheduledCommits' = SortCommits(scheduledCommits)
  /\ mpc' = "returned"
  /\ UNCHANGED <<options, row, col, cellLog, mrest>>

MapNext ==
  \/ MapThrowInput
  \/ MapEnter
  \/ MapBreak
  \/ MapSkipEmpty
  \/ MapSkipWeekend
  \/ MapEmit
  \/ MapThrowCount
  \/ MapNextRow
  \/ MapReturn

-----------------------------------------------------------------------------
(* processBatchedCommits *)

\* what processFn does on an item: its promise resolves, its promise rejects,
\* or it throws before returning a promise
Behaviours == {"ok", "reject", "throw"}

\* batchSize as callers pass it: the default 10 and the backend's 5 are
\* positive; 0 is a number the signature takes as well
BatchSizes == 0..MaxBatchSize

NoResults == [succeeded |-> 0, failed |-> 0, errors |-> <<>>]

\* a slice that holds the first item of the batch only
batchFirstOnly == { k \in 1..Len(items) : k = i + 1 /\ k <= i + batchSize }

\* items.slice(i, i + batchSize), as the set of the positions (1-based) it holds
batch == { k \in 1..Len(items) : i < k /\ k <= i + batchSize }

\* the position of item k within its batch: the index argument of the map callback
indexOf(k) == k - 1 - i

\* results.failed++ without the results.errors.push(error)
RecordFailureNoError(res, k) == [res EXCEPT !.failed = @ + 1]

\* lines 243-246: the catch block; the error of item k is written k
RecordFailure(res, k) == [res EXCEPT !.failed = @ + 1, !.errors = Append(@, k)]

\* line 237
RecordSuccess(res) == [res EXCEPT !.succeeded = @ + 1]

RECURSIVE RecordThrows(_, _)
\* the callbacks of the batch run one after the other up to their first await; the
\* ones whose processFn throws reach their catch block then, in batch order
RecordThrows(res, ks) ==
  IF ks = {} THEN res
  ELSE LET k == CHOOSE x \in ks : \A y \in ks : x <= y
       IN RecordThrows(IF items[k] = "throw" THEN RecordFailure(res, k) ELSE res, ks \ {k})

\* Promise.race in place of Promise.all: the batch is over with its first callback
PromiseRace(ks) == ks = {} \/ \E k \in ks : ist[k] = "done"

\* line 234: await Promise.all(...) goes on once every callback of the batch has ended
\* (no callback rejects: each catches its own error)
PromiseAll(ks) == \A k \in ks : ist[k] = "done"

\* lines 230-236: the loop test holds, the batch is sliced off and batch.map runs:
\* processFn is called on every item of the batch
BatchDispatch ==
  /\ bpc = "loop"
  /\ i < Len(items)
  /\ ist' = [k \in 1..Len(items) |->
               IF k \in batch THEN (IF items[k] = "throw" THEN "done" ELSE "running") ELSE ist[k]]
  /\ results' = RecordThrows(results, batch)
  /\ bpc' = "await"
  /\ UNCHANGED <<items, batchSize, i, progress, brest>>

\* lines 237-242 without the test of line 240: the wait follows the last item too
ItemSucceedsAlwaysWaits(k) ==
  /\ ist[k] = "running"
  /\ items[k] = "ok"
  /\ results' = [results EXCEPT !.succeeded = @ + 1]
  /\ ist' = [ist EXCEPT ![k] = "waiting"]
  /\ UNCHANGED <<items, batchSize, bpc, i, progress, brest>>

\* the promise of processFn(item) resolves: lines 237-242
ItemSucceeds(k) ==
  /\ ist[k] = "running"
  /\ items[k] = "ok"
  /\ results' = RecordSuccess(results)
  /\ ist' = [ist EXCEPT ![k] = IF indexOf(k) < Cardinality(batch) - 1 THEN "waiting" ELSE "done"]
  /\ UNCHANGED <<items, batchSize, bpc, i, progress, brest>>

\* the promise of processFn(item) rejects: lines 243-246
ItemFails(k) ==
  /\ ist[k] = "running"
  /\ items[k] = "reject"
  /\ results' = RecordFailure(results, k)
  /\ ist' = [ist EXCEPT ![k] = "done"]
  /\ UNCHANGED <<items, batchSize, bpc, i, progress, brest>>

\* line 241: the timer of delayBetweenItems fires
ItemDelayElapsed(k) ==
  /\ ist[k] = "waiting"
  /\ ist' = [ist EXCEPT ![k] = "done"]
  /\ UNCHANGED <<items, batchSize, bpc, i, results, progress, brest>>

\* onProgress(processed, total); the log is cut off at MaxProgress calls
Report(log, processed, total) ==
  IF Len(log) < MaxProgress THEN Append(log, <<processed, total>>) ELSE log

\* lines 234, 250-255: Promise.all resolves, onProgress is called, and the loop
\* either waits delayBetweenBatches or goes straight to its next test
BatchSettled ==
  /\ bpc = "await"
  /\ PromiseAll(batch)
  /\ progress' = Report(progress, Min(i + batchSize, Len(items)), Len(items))
  /\ IF i + batchSize < Len(items)
       THEN bpc' = "delay" /\ i' = i
       ELSE bpc' = "loop" /\ i' = i + batchSize
  /\ UNCHANGED <<items, batchSize, ist, results, brest>>

\* line 254: the timer of delayBetweenBatches fires; line 230: i += batchSize
BatchDelayElapsed ==
  /\ bpc = "delay"
  /\ bpc' = "loop"
  /\ i' = i + batchSize
  /\ UNCHANGED <<items, batchSize, ist, results, progress, brest>>

\* lines 230, 258: the loop test fails and results is returned
BatchReturn ==
  /\ bpc = "loop"
  /\ ~(i < Len(items))
  /\ bpc' = "returned"
  /\ UNCHANGED <<items, batchSize, i, ist, results, progress, brest>>

BatchNext ==
  \/ BatchDispatch
  \/ \E k \in 1..Len(items) : ItemSucceeds(k)
  \/ \E k \in 1..Len(items) : ItemFails(k)
  \/ \E k \in 1..Len(items) : ItemDelayElapsed(k)
  \/ BatchSettled
  \/ BatchDelayElapsed
  \/ BatchReturn

-----------------------------------------------------------------------------
(* adjustDateForAuthenticity: commands/date.ts and utils/date-utils.ts *)

\* clock times of the dates passed in
AdjustHours == {8, 10, 17, 18}
AdjustMinutes == {15}
AdjustSeconds == {20}
\* values of Math.floor(Math.random() * 45), Math.round(Math.random()),
\* Math.floor(Math.random() * 2), Math.floor(Math.random() * 3)
Floor45Samples == {0, 44}
RoundSamples == {0, 1}
Floor2Samples == {0, 1}
Floor3Samples == {0, 2}

\* the first day after the years the dates are drawn from
EndOfDays == YearStart(BaseYear + NumYears)

\* commands/date.ts isWeekend: getDay() is 0 or 6
isWeekend_date(d) == GetDay(d) = 0 \/ GetDay(d) = 6

\* commands/date.ts isBusinessHours: hour >= 9 && hour <= 17
isBusinessHours_date(hour) == hour >= 9 /\ hour <= 17

\* utils/date-utils.ts isBusinessHours: dt.hour >= 9 && dt.hour < 17
isBusinessHours_utils(hour) == hour >= 9 /\ hour < 17

\* commands/date.ts isHoliday, on a day number
isHoliday(d) ==
  LET year == GetFullYear(d)
      month == GetMonth(d)
      day == GetDate(d)
      lastDay == GetDate(NewDate(year, 5, 0))
      lastMonday == lastDay - GetDay(NewDate(year, 5, 0))
      firstMonday == 1 + JSRem(8 - GetDay(NewDate(year, 8, 1)), 7)
      firstThursday == 1 + JSRem(4 - GetDay(NewDate(year, 10, 1)), 7)
      fourthThursday == firstThursday + 21
  IN \/ month = 0 /\ day = 1
     \/ /\ month = 4
        /\ \/ day = lastMonday
           \/ lastMonday < day /\ day <= lastDay /\ GetDay(NewDate(year, 4, day)) = 1
     \/ month = 6 /\ day = 4
     \/ month = 8 /\ day = firstMonday
     \/ month = 10 /\ day = fourthThursday
     \/ month = 11 /\ day = 25

\* the weekend step with the two directions swapped
WeekendShiftSwapped(date, avoidWeekends) ==
  IF avoidWeekends /\ isWeekend_date(date.day)
    THEN [date EXCEPT !.day = IF GetDay(@) = 0 THEN @ - 1 ELSE @ + 1]
    ELSE date

\* lines 279-287 of date.ts: Sunday -> Monday, Saturday -> Friday, the clock time kept
WeekendShift(date, avoidWeekends) ==
  IF avoidWeekends /\ isWeekend_date(date.day)
    THEN [date EXCEPT !.day = IF GetDay(@) = 0 THEN @ + 1 ELSE @ - 1]
    ELSE date

\* luxon's dt.weekday: 1 = Monday ... 6 = Saturday, 7 = Sunday
Weekday(d) == IF GetDay(d) = 0 THEN 7 ELSE GetDay(d)

\* lines 158-164 of date-utils.ts: Saturday -> Friday, Sunday -> Monday
WeekendShift_utils(date, avoidWeekends) ==
  IF avoidWeekends /\ Weekday(date.day) >= 6
    THEN [date EXCEPT !.day = IF Weekday(@) = 6 THEN @ - 1 ELSE @ + 1]
    ELSE date

\* lines 290-301 of date.ts: the dates the work-hours step can give
WorkHours_date(date, workHoursOnly) ==
  IF workHoursOnly /\ ~isBusinessHours_date(date.hour)
    THEN IF date.hour < 9
           THEN { [date EXCEPT !.hour = 9, !.minute = m, !.second = 0] : m \in Floor45Samples }
           ELSE IF date.hour > 17
             THEN { [date EXCEPT !.hour = 16 + r, !.minute = m, !.second = 0] :
                      r \in RoundSamples, m \in MinuteSamples }
             ELSE {date}
    ELSE {date}

\* lines 167-183 of date-utils.ts
WorkHours_utils(date, workHoursOnly) ==
  IF workHoursOnly
    THEN IF date.hour < 9
           THEN { [date EXCEPT !.hour = 9 + f, !.minute = m] : f \in Floor2Samples, m \in MinuteSamples }
           ELSE IF date.hour >= 17
             THEN { [date EXCEPT !.hour = 14 + f, !.minute = m] : f \in Floor3Samples, m \in MinuteSamples }
             ELSE {date}
    ELSE {date}

\* date.ts lines 276-301: the call copies the date and takes the weekend step and
\* the work-hours step
AdjustSteps ==
  /\ apc = "call" /\ impl = "date.ts"
  /\ adate' \in WorkHours_date(WeekendShift(adate, aopts.avoidWeekends), aopts.workHoursOnly)
  /\ apc' = "adjusted"
  /\ UNCHANGED <<impl, aopts, ainput, arest>>

\* date.ts lines 304-308: the adjusted date is a holiday; it is moved one day on and
\* the function calls itself on it with the same options
AdjustRecurse ==
  /\ apc = "adjusted"
  /\ aopts.avoidHolidays /\ isHoliday(adate.day)
  /\ adate' = [adate EXCEPT !.day = @ + 1]
  /\ apc' = "call"
  /\ UNCHANGED <<impl, aopts, ainput, arest>>

\* the adjusted date returned without the test of line 304
AdjustReturnAnyway ==
  /\ apc = "adjusted"
  /\ apc' = "returned"
  /\ UNCHANGED <<impl, aopts, ainput, adate, arest>>

\* date.ts lines 304, 310: no holiday to avoid, the adjusted date is returned (through
\* every pending recursive call)
AdjustReturn ==
  /\ apc = "adjusted"
  /\ ~(aopts.avoidHolidays /\ isHoliday(adate.day))
  /\ apc' = "returned"
  /\ UNCHANGED <<impl, aopts, ainput, adate, arest>>

\* date-utils.ts lines 145-186
AdjustUtils ==
  /\ apc = "call" /\ impl = "date-utils.ts"
  /\ adate' \in WorkHours_utils(WeekendShift_utils(adate, aopts.avoidWeekends), aopts.workHoursOnly)
  /\ apc' = "returned"
  /\ UNCHANGED <<impl, aopts, ainput, arest>>

\* the steps of commands/date.ts
DateNext ==
  \/ AdjustSteps
  \/ AdjustRecurse
  \/ AdjustReturn

AdjustNext ==
  \/ AdjustSteps
  \/ AdjustRecurse
  \/ AdjustReturn
  \/ AdjustUtils

-----------------------------------------------------------------------------
(* validatePattern: shared/src/utils/pattern-utils.ts and utils/git-utils.ts *)

\* cell values, kept in halves so that a number that is no integer can be a
\* cell: -1, 0, 1.5, 4 and 5
CellValues == {-2, 0, 3, 8, 10}

\* Number.isInteger(value), value in halves
IsInteger(value) == value % 2 = 0

\* the test with value >= 4 in place of value > 4
InvalidIntensityInclusive(value) == ~IsInteger(value) \/ value < 0 \/ value >= 8

\* lines 31 and 356: !Number.isInteger(value) || value < 0 || value > 4
InvalidIntensity(value) == ~IsInteger(value) \/ value < 0 \/ value > 8

\* the rows of at most n cells
RowsUpTo(n) == UNION { [1..l -> CellValues] : l \in 0..n }

RECURSIVE GridsWithin(_, _)
\* the grids of at most r rows and at most n cells in all; rows can be empty and
\* of different lengths
GridsWithin(n, r) ==
  IF r = 0 THEN { <<>> }
  ELSE { <<>> } \cup
       UNION { { <<rw>> \o g : g \in GridsWithin(n - Len(rw), r - 1) } : rw \in RowsUpTo(n) }

\* the grid whose rows have the lengths lens, every cell being value
Fill(lens, value) == [r \in 1..Len(lens) |-> [c \in 1..lens[r] |-> value]]

\* grids around the size limit of lines 38 and 364: one row of 365 and of 366
\* cells, 5 rows of 73, 2 rows of 183, and rows of different lengths
LargeShapes ==
  { <<SizeLimit>>, <<SizeLimit + 1>>,
    [r \in 1..5 |-> SizeLimit \div 5],
    <<(SizeLimit + 1) \div 2, (SizeLimit + 1) \div 2>>,
    <<(SizeLimit + 1) \div 2, 1>>,
    <<1, SizeLimit>> }

LargeGrids == { Fill(lens, value) : lens \in LargeShapes, value \in {0, 10} }

Grids == GridsWithin(MaxGridCells, MaxGridRows) \cup LargeGrids

\* an issue string, as what it names
Issue(kind, r, c, value, len, first, count) ==
  [kind |-> kind, row |-> r, col |-> c, value |-> value,
   len |-> len, first |-> first, count |-> count]

\* the row test that also takes the first row for one of a different length
RowIssuesWithFirst(pattern) ==
  SelectSeq([k \in 1..Len(pattern) |->
               Issue("rowLength", k, 0, 0, Len(pattern[k]), Len(pattern[1]), 0)],
            LAMBDA x : x.len # x.first \/ x.row = 1)

\* lines 21-25 (343-348): one issue per row after the first whose length differs
\* from the first row's; the issue names the row counted from 1
RowIssues(pattern) ==
  SelectSeq([k \in 1..(Len(pattern) - 1) |->
               Issue("rowLength", k + 1, 0, 0, Len(pattern[k + 1]), Len(pattern[1]), 0)],
            LAMBDA x : x.len # x.first)

RECURSIVE CellIssues(_, _)
\* lines 28-35 (351-361): the issues of the cells of the rows from r on (counted
\* from 1 here), in row-major order; the issue names row and col counted from 0
CellIssues(pattern, r) ==
  IF r > Len(pattern) THEN <<>>
  ELSE SelectSeq([c \in 1..Len(pattern[r]) |->
                    Issue("value", r - 1, c - 1, pattern[r][c], 0, 0, 0)],
                 LAMBDA x : InvalidIntensity(x.value))
       \o CellIssues(pattern, r + 1)

\* lines 38 and 364
TooLarge(pattern) == Len(pattern) * Len(pattern[1]) > SizeLimit

\* lines 38-40 (364-366)
SizeIssues(pattern) ==
  IF TooLarge(pattern)
    THEN << Issue("size", Len(pattern), Len(pattern[1]), 0, 0, 0, Len(pattern) * Len(pattern[1])) >>
    ELSE <<>>

\* pattern-utils.ts lines 4-43
validatePattern(pattern) ==
  IF Len(pattern) = 0 THEN << Issue("empty", 0, 0, 0, 0, 0, 0) >>
  ELSE IF Len(pattern[1]) = 0 THEN << Issue("emptyRows", 0, 0, 0, 0, 0, 0) >>
  ELSE RowIssues(pattern) \o CellIssues(pattern, 1) \o SizeIssues(pattern)

\* git-utils.ts lines 321-369: the same checks; its guards for a row or a cell
\* that is undefined are never taken on a number[][]
validatePattern_git(pattern) ==
  IF Len(pattern) = 0 THEN << Issue("empty", 0, 0, 0, 0, 0, 0) >>
  ELSE IF Len(pattern[1]) = 0 THEN << Issue("emptyRows", 0, 0, 0, 0, 0, 0) >>
  ELSE RowIssues(pattern) \o CellIssues(pattern, 1) \o SizeIssues(pattern)

\* a call of validatePattern of pattern-utils.ts returns
Validate ==
  /\ vpc = "call" /\ vimpl = "pattern-utils.ts"
  /\ issues' = validatePattern(grid)
  /\ vpc' = "returned"
  /\ UNCHANGED <<vimpl, grid, prest>>

\* a call of validatePattern of git-utils.ts returns
ValidateGit ==
  /\ vpc = "call" /\ vimpl = "git-utils.ts"
  /\ issues' = validatePattern_git(grid)
  /\ vpc' = "returned"
  /\ UNCHANGED <<vimpl, grid, prest>>

ValidateNext ==
  \/ Validate
  \/ ValidateGit

-----------------------------------------------------------------------------
(* checkScheduleAuthenticity *)

\* n dates from t on, each gap seconds after the one before
Run(t, gap, n) == [k \in 1..n |-> t + (k - 1) * gap]

\* runs of commits: from 00:00, 01:00 or 06:00 of day 0; at one instant, an hour
\* apart or a day apart; as many as the limits of lines 159 and 187, one more, one
\* less, one or none
Runs ==
  { Run(t, gap, n) :
      t \in {0, 3600, 21600},
      gap \in {0, 3600, SecondsPerDay},
      n \in {0, 1, UniformLimit, UniformLimit + 1, DailyLimit, DailyLimit + 1} }

RECURSIVE SchedulesOf(_)
\* the schedules made of at most n runs, one after the other
SchedulesOf(n) ==
  IF n = 0 THEN { <<>> }
  ELSE { r \o s : r \in Runs, s \in SchedulesOf(n - 1) }

\* line 150: commit.date.toFormat('yyyy-MM-dd'), the calendar day of the date
dayKey(date) == Floor(date, SecondsPerDay)

\* line 194: commit.date.hour
hourOf(date) == Floor(JSRem(date, SecondsPerDay), 3600)

\* Math.round of the quotient a / b of two numbers >= 0; 0 / 0 is NaN, written 0
Round(a, b) == IF b = 0 THEN 0 ELSE Floor(2 * a + b, 2 * b)

\* an issue string, as what it names
CheckIssue(kind, day, time, count, percent) ==
  [kind |-> kind, day |-> day, time |-> time, count |-> count, percent |-> percent]

\* the positions of the keys ks at which a Map gets a new key, in order
FirstOfKey(ks) ==
  SelectSeq([n \in 1..Len(ks) |-> n], LAMBDA n : \A m \in 1..(n - 1) : ks[m] # ks[n])

\* how many of the keys ks are the key ks[n]
CountOfKey(ks, n) == Cardinality({ m \in 1..Len(ks) : ks[m] = ks[n] })

\* the test of line 159 with >= in place of >
TooManyInclusive(count) == count >= DailyLimit

\* line 159
TooMany(count) == count > DailyLimit

\* lines 147-162: the days in the order of their first commit, one issue for each
\* day with too many commits
DayIssues(cs) ==
  LET keys == [n \in 1..Len(cs) |-> dayKey(cs[n])]
      days == SelectSeq(FirstOfKey(keys), LAMBDA n : TooMany(CountOfKey(keys, n)))
  IN [k \in 1..Len(days) |->
        CheckIssue("day", keys[days[k]], 0, CountOfKey(keys, days[k]), 0)]

\* line 167: commit.date.toMillis()
timeKey(date) == date

\* the test of line 172 with count > 2
SharedByThree(count) == count > 2

\* line 172
Shared(count) == count > 1

\* lines 165-176: the times in the order of their first commit, one issue for each
\* time more than one commit has
TimeIssues(cs) ==
  LET keys == [n \in 1..Len(cs) |-> timeKey(cs[n])]
      times == SelectSeq(FirstOfKey(keys), LAMBDA n : Shared(CountOfKey(keys, n)))
  IN [k \in 1..Len(times) |->
        CheckIssue("time", 0, keys[times[k]], CountOfKey(keys, times[k]), 0)]

\* lines 180-183
intervals(cs) == [k \in 1..(Len(cs) - 1) |-> cs[k + 1] - cs[k]]

\* the test of line 187 without the count
AllSameOnly(cs) == \A k \in 1..Len(intervals(cs)) : intervals(cs)[k] = intervals(cs)[1]

\* lines 179-187: more than 3 commits, all intervals the same, more than 5 commits
UniformlySpaced(cs) ==
  /\ Len(cs) > 3
  /\ \A k \in 1..Len(intervals(cs)) : intervals(cs)[k] = intervals(cs)[1]
  /\ Len(cs) > UniformLimit

\* lines 179-190
SpacingIssues(cs) ==
  IF UniformlySpaced(cs) THEN << CheckIssue("spacing", 0, 0, Len(cs), 0) >> ELSE <<>>

\* lines 193-195
lateNightCommits(cs) == Cardinality({ n \in 1..Len(cs) : hourOf(cs[n]) >= 1 /\ hourOf(cs[n]) <= 5 })

\* the test of line 197 with >= in place of >
LateNightInclusive(late, total) == late * 100 >= total * LateNightPercent

\* line 197: lateNightCommits > commits.length * 0.25
LateNight(late, total) == late * 100 > total * LateNightPercent

\* lines 197-199
HourIssues(cs) ==
  IF LateNight(lateNightCommits(cs), Len(cs))
    THEN << CheckIssue("hours", 0, 0, lateNightCommits(cs),
                       Round(lateNightCommits(cs) * 100, Len(cs))) >>
    ELSE <<>>

\* lines 143-202
checkScheduleAuthenticity(cs) ==
  DayIssues(cs) \o TimeIssues(cs) \o SpacingIssues(cs) \o HourIssues(cs)

\* a call of checkScheduleAuthenticity returns
Check ==
  /\ cpc = "call"
  /\ cissues' = checkScheduleAuthenticity(commits)
  /\ cpc' = "returned"
  /\ UNCHANGED <<commits, crest>>

CheckNext ==
  \/ Check

-----------------------------------------------------------------------------
(* isBusinessHours: commands/date.ts and utils/date-utils.ts *)

\* the dates passed in: every hour of a day, at its first and at its last minute
ClockTimes == [day : {0}, hour : 0..23, minute : {0, 59}, second : {0}]

\* a call of isBusinessHours of commands/date.ts returns: lines 184-187
BusinessHoursDate ==
  /\ hpc = "call" /\ himpl = "date.ts"
  /\ hresult' = isBusinessHours_date(hdate.hour)
  /\ hpc' = "returned"
  /\ UNCHANGED <<himpl, hdate, hrest>>

\* a call of isBusinessHours of utils/date-utils.ts returns: lines 136-139
BusinessHoursUtils ==
  /\ hpc = "call" /\ himpl = "date-utils.ts"
  /\ hresult' = isBusinessHours_utils(hdate.hour)
  /\ hpc' = "returned"
  /\ UNCHANGED <<himpl, hdate, hrest>>

BusinessHoursNext ==
  \/ BusinessHoursDate
  \/ BusinessHoursUtils

-----------------------------------------------------------------------------
(* isHoliday: commands/date.ts *)

\* the dates passed in: every day of the years of the model, early and late in the day
HolidayDates == [day : 0..(EndOfDays - 1), hour : {0, 23}, minute : {0}, second : {0}]

\* a call of isHoliday returns: lines 207-244
HolidayCall ==
  /\ hpc = "call" /\ himpl = "isHoliday"
  /\ hresult' = isHoliday(hdate.day)
  /\ hpc' = "returned"
  /\ UNCHANGED <<himpl, hdate, hrest>>

HolidayNext == HolidayCall

-----------------------------------------------------------------------------
(* The commit command: commands/commit-command.ts, the action handler *)

NoCmdOptions == [pattern |-> FALSE, dryRun |-> FALSE, push |-> FALSE]

\* the handler calls the function f
Call(f) == calls' = Append(calls, f)

\* process.exit(code): the process ends there
Exit(code) == cmdPc' = "exited" /\ exitCode' = code

\* the handler goes on to its step pc
Goto(pc) == cmdPc' = pc /\ exitCode' = exitCode

\* lines 32-49: the authentication check and the offer to authenticate;
\* authenticateWithGitHub can throw, which line 218 catches
CmdAuthenticate ==
  /\ cmdPc = "auth"
  /\ \E authenticated, shouldAuth, throws \in BOOLEAN :
       IF authenticated \/ ~shouldAuth
         THEN calls' = calls \o <<"isAuthenticated">> /\ Goto("pattern")
         ELSE /\ calls' = calls \o <<"isAuthenticated", "authenticateWithGitHub">>
              /\ IF throws THEN Exit(1) ELSE Goto("pattern")
  /\ UNCHANGED <<cmdOptions, krest>>

\* lines 53-84: the pattern file is read; if that fails the user may ask for a
\* simple pattern instead, or the process exits
CmdLoadPattern ==
  /\ cmdPc = "pattern"
  /\ cmdOptions.pattern
  /\ \E loaded, createNew \in BOOLEAN :
       IF loaded THEN Call("readFile") /\ Goto("validate")
       ELSE IF createNew
         THEN calls' = calls \o <<"readFile", "promptForPattern">> /\ Goto("validate")
         ELSE Call("readFile") /\ Exit(1)
  /\ UNCHANGED <<cmdOptions, krest>>

\* lines 85-88: no pattern file is given
CmdPromptPattern ==
  /\ cmdPc = "pattern"
  /\ ~cmdOptions.pattern
  /\ Call("promptForPattern")
  /\ Goto("validate")
  /\ UNCHANGED <<cmdOptions, krest>>

\* lines 91-106: the pattern is validated; with issues the user is asked
CmdValidate ==
  /\ cmdPc = "validate"
  /\ Call("validatePattern")
  /\ \E hasIssues, continueAnyway \in BOOLEAN :
       IF hasIssues /\ ~continueAnyway THEN Exit(1) ELSE Goto("inputs")
  /\ UNCHANGED <<cmdOptions, krest>>

\* lines 109-121: the dates and the density, from the options or from prompts;
\* validateDateInput throws on a date it cannot read, which line 218 catches
CmdInputs ==
  /\ cmdPc = "inputs"
  /\ Call("validateDateInput")
  /\ \E throws \in BOOLEAN : IF throws THEN Exit(1) ELSE Goto("schedule")
  /\ UNCHANGED <<cmdOptions, krest>>

\* line 135: the schedule is generated; mapPatternToSchedule can throw
CmdSchedule ==
  /\ cmdPc = "schedule"
  /\ Call("mapPatternToSchedule")
  /\ \E throws \in BOOLEAN : IF throws THEN Exit(1) ELSE Goto("authenticity")
  /\ UNCHANGED <<cmdOptions, krest>>

\* lines 138-154: the authenticity check; with issues the user is asked
CmdAuthenticity ==
  /\ cmdPc = "authenticity"
  /\ Call("checkScheduleAuthenticity")
  /\ \E hasIssues, continueWithIssues \in BOOLEAN :
       IF hasIssues /\ ~continueWithIssues THEN Exit(0) ELSE Goto("preview")
  /\ UNCHANGED <<cmdOptions, krest>>

\* the dry-run test left out
DryRunIgnored(opts) == FALSE

\* line 175: if (options.dryRun)
DryRun(opts) == opts.dryRun

\* lines 157-178: the preview is printed; in dry-run mode the notice is printed
\* and the process exits
CmdPreview ==
  /\ cmdPc = "preview"
  /\ IF DryRun(cmdOptions)
       THEN calls' = calls \o <<"preview", "dryRunNotice">> /\ Exit(0)
       ELSE Call("preview") /\ Goto("confirm")
  /\ UNCHANGED <<cmdOptions, krest>>

\* lines 181-191: the user confirms or cancels
CmdConfirm ==
  /\ cmdPc = "confirm"
  /\ Call("confirmCommits")
  /\ \E confirmCommits \in BOOLEAN : IF confirmCommits THEN Goto("execute") ELSE Exit(0)
  /\ UNCHANGED <<cmdOptions, krest>>

\* lines 194-206: the commits are created; a failure is caught by line 218
CmdExecute ==
  /\ cmdPc = "execute"
  /\ Call("executeScheduledCommits")
  /\ \E throws \in BOOLEAN : IF throws THEN Exit(1) ELSE Goto("push")
  /\ UNCHANGED <<cmdOptions, krest>>

\* lines 209-217: the push, if asked for; its failure is caught and reported
CmdPush ==
  /\ cmdPc = "push"
  /\ IF cmdOptions.push THEN Call("pushToGitHub") ELSE calls' = calls
  /\ Goto("done")
  /\ UNCHANGED <<cmdOptions, krest>>

CmdNext ==
  \/ CmdAuthenticate
  \/ CmdLoadPattern
  \/ CmdPromptPattern
  \/ CmdValidate
  \/ CmdInputs
  \/ CmdSchedule
  \/ CmdAuthenticity
  \/ CmdPreview
  \/ CmdConfirm
  \/ CmdExecute
  \/ CmdPush

-----------------------------------------------------------------------------
(* executeScheduledCommits: graphify-cli utils/git-utils.ts *)

\* the CommitOptions of a list of dates, each with its place in the list
CommitList(ds) == [k \in 1..Len(ds) |-> [date |-> ds[k], id |-> k]]

\* the lists passed in: every list of up to MaxShort commits over MaxShort dates (the
\* empty one too), and lists of LongRun to MaxLong commits, in descending order of
\* date and in an order that goes up and down with dates that come back
ScheduledLists ==
  { CommitList(ds) : ds \in UNION { [1..n -> 1..MaxShort] : n \in 0..MaxShort } }
    \cup { CommitList([k \in 1..n |-> n + 1 - k]) : n \in LongRun..MaxLong }
    \cup { CommitList([k \in 1..n |-> (k * 3) % 4]) : n \in LongRun..MaxLong }

\* the copy left in the order of the argument
NotSorted(cs) == cs

\* line 73: [...commits].sort((a, b) => a.date.getTime() - b.date.getTime()), a stable sort
sortByDate(cs) == SortCommitsAsc(cs)

\* the test of line 100 with the length of the list left out
StopsOnErrorsOnly(errs, sortedLength) == Len(errs) = ErrorLimit

\* line 100: errors.length === 5 && sortedCommits.length > 10
StopsOnErrors(errs, sortedLength) == Len(errs) = ErrorLimit /\ sortedLength > LongRun

\* lines 62-64: no commits, the call throws
RunnerThrowEmpty ==
  /\ rpc = "call"
  /\ Len(scheduled) = 0
  /\ rpc' = "threw"
  /\ UNCHANGED <<scheduled, sortedCommits, ci, successCount, failureCount, errors, attempted, rrest>>

\* lines 62-67: there are commits, checkGitRepository is called and awaited
RunnerCheck ==
  /\ rpc = "call"
  /\ Len(scheduled) # 0
  /\ rpc' = "check"
  /\ UNCHANGED <<scheduled, sortedCommits, ci, successCount, failureCount, errors, attempted, rrest>>

\* line 67, lines 156-175: checkGitRepository rejects, and so does the call
RunnerCheckFails ==
  /\ rpc = "check"
  /\ rpc' = "threw"
  /\ UNCHANGED <<scheduled, sortedCommits, ci, successCount, failureCount, errors, attempted, rrest>>

\* lines 67-80: checkGitRepository resolves, the commits are sorted and the loop starts
RunnerSort ==
  /\ rpc = "check"
  /\ sortedCommits' = sortByDate(scheduled)
  /\ ci' = 0 /\ successCount' = 0 /\ failureCount' = 0 /\ errors' = <<>>
  /\ rpc' = "loop"
  /\ UNCHANGED <<scheduled, attempted, rrest>>

\* lines 80-92: the loop test holds and executeGitOperations is called on commit i
RunnerAttempt ==
  /\ rpc = "loop"
  /\ ci < Len(sortedCommits)
  /\ attempted' = Append(attempted, sortedCommits[ci + 1])
  /\ rpc' = "attempt"
  /\ UNCHANGED <<scheduled, sortedCommits, ci, successCount, failureCount, errors, rrest>>

\* lines 92-93, 80: executeGitOperations resolves
RunnerSucceeds ==
  /\ rpc = "attempt"
  /\ successCount' = successCount + 1
  /\ ci' = ci + 1
  /\ rpc' = "loop"
  /\ UNCHANGED <<scheduled, sortedCommits, failureCount, errors, attempted, rrest>>

\* lines 94-104: executeGitOperations rejects; the error is kept and, at the fifth
\* error of a long list, the closing line is added and the loop is left
RunnerFails ==
  /\ rpc = "attempt"
  /\ failureCount' = failureCount + 1
  /\ IF StopsOnErrors(Append(errors, ci + 1), Len(sortedCommits))
       THEN /\ errors' = Append(Append(errors, ci + 1), 0)
            /\ ci' = ci
            /\ rpc' = "broke"
       ELSE /\ errors' = Append(errors, ci + 1)
            /\ ci' = ci + 1
            /\ rpc' = "loop"
  /\ UNCHANGED <<scheduled, sortedCommits, successCount, attempted, rrest>>

\* lines 80, 107-120: the loop has ended or was left; the summary is printed and the
\* call returns
RunnerReturn ==
  /\ \/ rpc = "loop" /\ ~(ci < Len(sortedCommits))
     \/ rpc = "broke"
  /\ rpc' = "returned"
  /\ UNCHANGED <<scheduled, sortedCommits, ci, successCount, failureCount, errors, attempted, rrest>>

RunnerNext ==
  \/ RunnerThrowEmpty
  \/ RunnerCheck
  \/ RunnerCheckFails
  \/ RunnerSort
  \/ RunnerAttempt
  \/ RunnerSucceeds
  \/ RunnerFails
  \/ RunnerReturn

-----------------------------------------------------------------------------
(* The backend: ScheduleService.cancelSchedule and executeScheduledCommits *)

\* the "Commit" tables the calls start from: up to MaxCommitRows pending rows, each of
\* one of NumSchedules schedules, due (date <= NOW()) or not
CommitTables ==
  UNION { [1..n -> [scheduleId : 1..NumSchedules, due : BOOLEAN, status : {"PENDING"}]] :
            n \in 1..MaxCommitRows }

\* the rows of the table whose status is PENDING and whose date has come, by date
PendingDue(table) ==
  SelectSeq([k \in 1..Len(table) |-> k],
            LAMBDA k : table[k].status = "PENDING" /\ table[k].due)

\* the ids of a sequence of rows
IdsOf(ids) == { ids[n] : n \in 1..Len(ids) }

\* lines 224-228: UPDATE "Commit" SET "status" = 'CANCELLED'
\* WHERE "scheduleId" = id AND "status" = 'PENDING'
CancelPendingRows(table, id) ==
  [k \in 1..Len(table) |->
     IF table[k].scheduleId = id /\ table[k].status = "PENDING"
       THEN [table[k] EXCEPT !.status = "CANCELLED"]
       ELSE table[k]]

\* lines 477-481: UPDATE "Commit" SET "status" = 'COMPLETED' WHERE "id" = commit.id
SetStatus(table, id, status) == [table EXCEPT ![id].status = status]

\* cancelSchedule, lines 222-228: the first statement
CancelCommits ==
  /\ cancelPc = "call"
  /\ commitTable' = CancelPendingRows(commitTable, cancelId)
  /\ cancelPc' = "commits"
  /\ UNCHANGED <<scheduleTable, tokenValid, pendingCommits, markIndex, cst, github, xpc, cancelId, srest>>

\* cancelSchedule, lines 231-235: the second statement
CancelScheduleRow ==
  /\ cancelPc = "commits"
  /\ scheduleTable' = [scheduleTable EXCEPT ![cancelId] = "CANCELLED"]
  /\ cancelPc' = "schedule"
  /\ UNCHANGED <<commitTable, tokenValid, pendingCommits, markIndex, cst, github, xpc, cancelId, srest>>

\* cancelSchedule, lines 237-239: the schedule is read and returned
CancelReturn ==
  /\ cancelPc = "schedule"
  /\ cancelPc' = "returned"
  /\ UNCHANGED <<commitTable, scheduleTable, tokenValid, pendingCommits, markIndex, cst, github, xpc, cancelId, srest>>

\* executeScheduledCommits, lines 288-309: the query of the pending commits that are
\* due; with none there is no user to go through
ServiceQuery ==
  /\ xpc = "call"
  /\ pendingCommits' = PendingDue(commitTable)
  /\ xpc' = IF PendingDue(commitTable) = <<>> THEN "returned" ELSE "auth"
  /\ UNCHANGED <<commitTable, scheduleTable, tokenValid, markIndex, cst, github, cancelId, cancelPc, srest>>

\* lines 310-327: no AuthSession, markCommitsAsFailed is called
ServiceNoToken ==
  /\ xpc = "auth"
  /\ ~tokenValid
  /\ markIndex' = 0
  /\ xpc' = "marking"
  /\ UNCHANGED <<commitTable, scheduleTable, tokenValid, pendingCommits, cst, github, cancelId, cancelPc, srest>>

\* markCommitsAsFailed, lines 502-535: UPDATE "Commit" SET "status" = 'FAILED'
\* WHERE "id" = commit.id, one commit of the list after the other
ServiceMarkFailed ==
  /\ xpc = "marking"
  /\ markIndex < Len(pendingCommits)
  /\ commitTable' = SetStatus(commitTable, pendingCommits[markIndex + 1], "FAILED")
  /\ markIndex' = markIndex + 1
  /\ UNCHANGED <<scheduleTable, tokenValid, pendingCommits, cst, github, xpc, cancelId, cancelPc, srest>>

\* lines 329-366: there is a token; processBatchedCommits calls executeCommit on
\* the commits of its first batch of 5, which holds them all
ServiceDispatch ==
  /\ xpc = "auth"
  /\ tokenValid
  /\ cst' = [k \in 1..Len(commitTable) |-> IF k \in IdsOf(pendingCommits) THEN "running" ELSE cst[k]]
  /\ xpc' = "batch"
  /\ UNCHANGED <<commitTable, scheduleTable, tokenValid, pendingCommits, markIndex, github, cancelId, cancelPc, srest>>

\* executeCommit, lines 400-474: the calls of the GitHub API up to updateRef succeed
CommitPushed(c) ==
  /\ cst[c] = "running"
  /\ github' = github \cup {c}
  /\ cst' = [cst EXCEPT ![c] = "pushed"]
  /\ UNCHANGED <<commitTable, scheduleTable, tokenValid, pendingCommits, markIndex, xpc, cancelId, cancelPc, srest>>

\* executeCommit, lines 495-498: a call of the GitHub API fails and the error is
\* thrown on; the row is left as it is
CommitFails(c) ==
  /\ cst[c] = "running"
  /\ cst' = [cst EXCEPT ![c] = "failed"]
  /\ UNCHANGED <<commitTable, scheduleTable, tokenValid, pendingCommits, markIndex, github, xpc, cancelId, cancelPc, srest>>

\* executeCommit, lines 477-494: the row is marked COMPLETED
CommitCompleted(c) ==
  /\ cst[c] = "pushed"
  /\ commitTable' = SetStatus(commitTable, c, "COMPLETED")
  /\ cst' = [cst EXCEPT ![c] = "done"]
  /\ UNCHANGED <<scheduleTable, tokenValid, pendingCommits, markIndex, github, xpc, cancelId, cancelPc, srest>>

\* lines 327, 368-373: the commits of the user have been marked, or the batch has
\* ended; there is no other user and the call returns
ServiceReturn ==
  /\ \/ xpc = "marking" /\ ~(markIndex < Len(pendingCommits))
     \/ xpc = "batch" /\ \A c \in IdsOf(pendingCommits) : cst[c] \in {"done", "failed"}
  /\ xpc' = "returned"
  /\ UNCHANGED <<commitTable, scheduleTable, tokenValid, pendingCommits, markIndex, cst, github, cancelId, cancelPc, srest>>

ServiceNext ==
  \/ CancelCommits
  \/ CancelScheduleRow
  \/ CancelReturn
  \/ ServiceQuery
  \/ ServiceNoToken
  \/ ServiceMarkFailed
  \/ ServiceDispatch
  \/ \E c \in 1..Len(commitTable) : CommitPushed(c)
  \/ \E c \in 1..Len(commitTable) : CommitFails(c)
  \/ \E c \in 1..Len(commitTable) : CommitCompleted(c)
  \/ ServiceReturn

-----------------------------------------------------------------------------
(* Specifications *)

\* a call of mapPatternToSchedule on any pattern, date range and options
MapInit ==
  /\ \E pattern \in Patterns, d \in StartDays, r \in RangeSeconds, density \in Densities,
        randomize \in BOOLEAN, workHoursOnly \in BOOLEAN, avoidWeekends \in BOOLEAN,
        maxCommitsPerDay \in Caps :
       options = [ pattern |-> pattern,
                   startDate |-> d * SecondsPerDay,
                   endDate |-> d * SecondsPerDay + r,
                   density |-> density,
                   randomize |-> randomize,
                   workHoursOnly |-> workHoursOnly,
                   avoidWeekends |-> avoidWeekends,
                   maxCommitsPerDay |-> maxCommitsPerDay ]
  /\ mpc = "call"
  /\ row = 0
  /\ col = 0
  /\ scheduledCommits = <<>>
  /\ cellLog = <<>>
  /\ items = <<>> /\ batchSize = 0 /\ bpc = "idle" /\ i = 0 /\ ist = <<>>
  /\ results = NoResults /\ progress = <<>>
  /\ impl = "none" /\ aopts = NoAdjustOptions /\ ainput = NoDate /\ adate = NoDate
  /\ apc = "idle"
  /\ vimpl = "none" /\ grid = <<>> /\ issues = <<>> /\ vpc = "idle"
  /\ commits = <<>> /\ cissues = <<>> /\ cpc = "idle"
  /\ himpl = "none" /\ hdate = NoDate /\ hresult = FALSE /\ hpc = "idle"
  /\ cmdOptions = NoCmdOptions /\ cmdPc = "idle" /\ calls = <<>> /\ exitCode = -1
  /\ scheduled = <<>> /\ sortedCommits = <<>> /\ ci = 0 /\ successCount = 0 /\ failureCount = 0
  /\ errors = <<>> /\ attempted = <<>> /\ rpc = "idle"
  /\ commitTable = <<>> /\ scheduleTable = <<>> /\ tokenValid = FALSE /\ pendingCommits = <<>>
  /\ markIndex = 0 /\ cst = <<>> /\ github = {} /\ xpc = "idle" /\ cancelId = 0 /\ cancelPc = "idle"

\* a call of processBatchedCommits on any items and batchSize
BatchInit ==
  /\ \E n \in 0..MaxItems : items \in [1..n -> Behaviours]
  /\ batchSize \in BatchSizes
  /\ bpc = "loop"
  /\ i = 0
  /\ ist = [k \in 1..Len(items) |-> "new"]
  /\ results = NoResults
  /\ progress = <<>>
  /\ options = NoOptions /\ mpc = "idle" /\ row = 0 /\ col = 0
  /\ scheduledCommits = <<>> /\ cellLog = <<>>
  /\ impl = "none" /\ aopts = NoAdjustOptions /\ ainput = NoDate /\ adate = NoDate
  /\ apc = "idle"
  /\ vimpl = "none" /\ grid = <<>> /\ issues = <<>> /\ vpc = "idle"
  /\ commits = <<>> /\ cissues = <<>> /\ cpc = "idle"
  /\ himpl = "none" /\ hdate = NoDate /\ hresult = FALSE /\ hpc = "idle"
  /\ cmdOptions = NoCmdOptions /\ cmdPc = "idle" /\ calls = <<>> /\ exitCode = -1
  /\ scheduled = <<>> /\ sortedCommits = <<>> /\ ci = 0 /\ successCount = 0 /\ failureCount = 0
  /\ errors = <<>> /\ attempted = <<>> /\ rpc = "idle"
  /\ commitTable = <<>> /\ scheduleTable = <<>> /\ tokenValid = FALSE /\ pendingCommits = <<>>
  /\ markIndex = 0 /\ cst = <<>> /\ github = {} /\ xpc = "idle" /\ cancelId = 0 /\ cancelPc = "idle"

\* a call of adjustDateForAuthenticity, of either file, on any date and options
AdjustInit ==
  /\ impl \in {"date.ts", "date-utils.ts"}
  /\ aopts \in [avoidWeekends : BOOLEAN, workHoursOnly : BOOLEAN, avoidHolidays : BOOLEAN]
  \* date-utils.ts takes no avoidHolidays
  /\ impl = "date-utils.ts" => ~aopts.avoidHolidays
  /\ ainput \in [day : 0..(EndOfDays - 1), hour : AdjustHours, minute : AdjustMinutes, second : AdjustSeconds]
  /\ adate = ainput
  /\ apc = "call"
  /\ options = NoOptions /\ mpc = "idle" /\ row = 0 /\ col = 0
  /\ scheduledCommits = <<>> /\ cellLog = <<>>
  /\ items = <<>> /\ batchSize = 0 /\ bpc = "idle" /\ i = 0 /\ ist = <<>>
  /\ results = NoResults /\ progress = <<>>
  /\ vimpl = "none" /\ grid = <<>> /\ issues = <<>> /\ vpc = "idle"
  /\ commits = <<>> /\ cissues = <<>> /\ cpc = "idle"
  /\ himpl = "none" /\ hdate = NoDate /\ hresult = FALSE /\ hpc = "idle"
  /\ cmdOptions = NoCmdOptions /\ cmdPc = "idle" /\ calls = <<>> /\ exitCode = -1
  /\ scheduled = <<>> /\ sortedCommits = <<>> /\ ci = 0 /\ successCount = 0 /\ failureCount = 0
  /\ errors = <<>> /\ attempted = <<>> /\ rpc = "idle"
  /\ commitTable = <<>> /\ scheduleTable = <<>> /\ tokenValid = FALSE /\ pendingCommits = <<>>
  /\ markIndex = 0 /\ cst = <<>> /\ github = {} /\ xpc = "idle" /\ cancelId = 0 /\ cancelPc = "idle"

\* a call of adjustDateForAuthenticity of commands/date.ts on any date and options
DateInit ==
  /\ impl = "date.ts"
  /\ aopts \in [avoidWeekends : BOOLEAN, workHoursOnly : BOOLEAN, avoidHolidays : BOOLEAN]
  /\ ainput \in [day : 0..(EndOfDays - 1), hour : AdjustHours, minute : AdjustMinutes, second : AdjustSeconds]
  /\ adate = ainput
  /\ apc = "call"
  /\ options = NoOptions /\ mpc = "idle" /\ row = 0 /\ col = 0
  /\ scheduledCommits = <<>> /\ cellLog = <<>>
  /\ items = <<>> /\ batchSize = 0 /\ bpc = "idle" /\ i = 0 /\ ist = <<>>
  /\ results = NoResults /\ progress = <<>>
  /\ vimpl = "none" /\ grid = <<>> /\ issues = <<>> /\ vpc = "idle"
  /\ commits = <<>> /\ cissues = <<>> /\ cpc = "idle"
  /\ himpl = "none" /\ hdate = NoDate /\ hresult = FALSE /\ hpc = "idle"
  /\ cmdOptions = NoCmdOptions /\ cmdPc = "idle" /\ calls = <<>> /\ exitCode = -1
  /\ scheduled = <<>> /\ sortedCommits = <<>> /\ ci = 0 /\ successCount = 0 /\ failureCount = 0
  /\ errors = <<>> /\ attempted = <<>> /\ rpc = "idle"
  /\ commitTable = <<>> /\ scheduleTable = <<>> /\ tokenValid = FALSE /\ pendingCommits = <<>>
  /\ markIndex = 0 /\ cst = <<>> /\ github = {} /\ xpc = "idle" /\ cancelId = 0 /\ cancelPc = "idle"

\* one call of mapPatternToSchedule
SpecMap == MapInit /\ [][MapNext]_vars

\* one call of processBatchedCommits
SpecBatch == BatchInit /\ [][BatchNext]_vars

\* the same, the event loop running every callback and timer that is due
LiveBatch == SpecBatch /\ WF_vars(BatchNext)

\* one call of adjustDateForAuthenticity
SpecAdjust == AdjustInit /\ [][AdjustNext]_vars

\* one call of adjustDateForAuthenticity of commands/date.ts, the call running on
\* as long as it has a step to take
LiveAdjust == DateInit /\ [][DateNext]_vars /\ WF_vars(DateNext)

\* a call of validatePattern, of either file, on any grid
ValidateInit ==
  /\ vimpl \in {"pattern-utils.ts", "git-utils.ts"}
  /\ grid \in Grids
  /\ issues = <<>>
  /\ vpc = "call"
  /\ options = NoOptions /\ mpc = "idle" /\ row = 0 /\ col = 0
  /\ scheduledCommits = <<>> /\ cellLog = <<>>
  /\ items = <<>> /\ batchSize = 0 /\ bpc = "idle" /\ i = 0 /\ ist = <<>>
  /\ results = NoResults /\ progress = <<>>
  /\ impl = "none" /\ aopts = NoAdjustOptions /\ ainput = NoDate /\ adate = NoDate
  /\ apc = "idle"
  /\ commits = <<>> /\ cissues = <<>> /\ cpc = "idle"
  /\ himpl = "none" /\ hdate = NoDate /\ hresult = FALSE /\ hpc = "idle"
  /\ cmdOptions = NoCmdOptions /\ cmdPc = "idle" /\ calls = <<>> /\ exitCode = -1
  /\ scheduled = <<>> /\ sortedCommits = <<>> /\ ci = 0 /\ successCount = 0 /\ failureCount = 0
  /\ errors = <<>> /\ attempted = <<>> /\ rpc = "idle"
  /\ commitTable = <<>> /\ scheduleTable = <<>> /\ tokenValid = FALSE /\ pendingCommits = <<>>
  /\ markIndex = 0 /\ cst = <<>> /\ github = {} /\ xpc = "idle" /\ cancelId = 0 /\ cancelPc = "idle"

\* one call of validatePattern
SpecValidate == ValidateInit /\ [][ValidateNext]_vars

\* a call of checkScheduleAuthenticity on any schedule
CheckInit ==
  /\ commits \in SchedulesOf(MaxRuns)
  /\ cissues = <<>>
  /\ cpc = "call"
  /\ options = NoOptions /\ mpc = "idle" /\ row = 0 /\ col = 0
  /\ scheduledCommits = <<>> /\ cellLog = <<>>
  /\ items = <<>> /\ batchSize = 0 /\ bpc = "idle" /\ i = 0 /\ ist = <<>>
  /\ results = NoResults /\ progress = <<>>
  /\ impl = "none" /\ aopts = NoAdjustOptions /\ ainput = NoDate /\ adate = NoDate
  /\ apc = "idle"
  /\ vimpl = "none" /\ grid = <<>> /\ issues = <<>> /\ vpc = "idle"
  /\ himpl = "none" /\ hdate = NoDate /\ hresult = FALSE /\ hpc = "idle"
  /\ cmdOptions = NoCmdOptions /\ cmdPc = "idle" /\ calls = <<>> /\ exitCode = -1
  /\ scheduled = <<>> /\ sortedCommits = <<>> /\ ci = 0 /\ successCount = 0 /\ failureCount = 0
  /\ errors = <<>> /\ attempted = <<>> /\ rpc = "idle"
  /\ commitTable = <<>> /\ scheduleTable = <<>> /\ tokenValid = FALSE /\ pendingCommits = <<>>
  /\ markIndex = 0 /\ cst = <<>> /\ github = {} /\ xpc = "idle" /\ cancelId = 0 /\ cancelPc = "idle"

\* one call of checkScheduleAuthenticity
SpecCheck == CheckInit /\ [][CheckNext]_vars

\* a call of isBusinessHours, of either file, on any clock time
BusinessHoursInit ==
  /\ himpl \in {"date.ts", "date-utils.ts"}
  /\ hdate \in ClockTimes
  /\ hresult = FALSE
  /\ hpc = "call"
  /\ options = NoOptions /\ mpc = "idle" /\ row = 0 /\ col = 0
  /\ scheduledCommits = <<>> /\ cellLog = <<>>
  /\ items = <<>> /\ batchSize = 0 /\ bpc = "idle" /\ i = 0 /\ ist = <<>>
  /\ results = NoResults /\ progress = <<>>
  /\ impl = "none" /\ aopts = NoAdjustOptions /\ ainput = NoDate /\ adate = NoDate
  /\ apc = "idle"
  /\ vimpl = "none" /\ grid = <<>> /\ issues = <<>> /\ vpc = "idle"
  /\ commits = <<>> /\ cissues = <<>> /\ cpc = "idle"
  /\ cmdOptions = NoCmdOptions /\ cmdPc = "idle" /\ calls = <<>> /\ exitCode = -1
  /\ scheduled = <<>> /\ sortedCommits = <<>> /\ ci = 0 /\ successCount = 0 /\ failureCount = 0
  /\ errors = <<>> /\ attempted = <<>> /\ rpc = "idle"
  /\ commitTable = <<>> /\ scheduleTable = <<>> /\ tokenValid = FALSE /\ pendingCommits = <<>>
  /\ markIndex = 0 /\ cst = <<>> /\ github = {} /\ xpc = "idle" /\ cancelId = 0 /\ cancelPc = "idle"

\* one call of isBusinessHours
SpecBusinessHours == BusinessHoursInit /\ [][BusinessHoursNext]_vars

\* a call of isHoliday on any date
HolidayInit ==
  /\ himpl = "isHoliday"
  /\ hdate \in HolidayDates
  /\ hresult = FALSE
  /\ hpc = "call"
  /\ options = NoOptions /\ mpc = "idle" /\ row = 0 /\ col = 0
  /\ scheduledCommits = <<>> /\ cellLog = <<>>
  /\ items = <<>> /\ batchSize = 0 /\ bpc = "idle" /\ i = 0 /\ ist = <<>>
  /\ results = NoResults /\ progress = <<>>
  /\ impl = "none" /\ aopts = NoAdjustOptions /\ ainput = NoDate /\ adate = NoDate
  /\ apc = "idle"
  /\ vimpl = "none" /\ grid = <<>> /\ issues = <<>> /\ vpc = "idle"
  /\ commits = <<>> /\ cissues = <<>> /\ cpc = "idle"
  /\ cmdOptions = NoCmdOptions /\ cmdPc = "idle" /\ calls = <<>> /\ exitCode = -1
  /\ scheduled = <<>> /\ sortedCommits = <<>> /\ ci = 0 /\ successCount = 0 /\ failureCount = 0
  /\ errors = <<>> /\ attempted = <<>> /\ rpc = "idle"
  /\ commitTable = <<>> /\ scheduleTable = <<>> /\ tokenValid = FALSE /\ pendingCommits = <<>>
  /\ markIndex = 0 /\ cst = <<>> /\ github = {} /\ xpc = "idle" /\ cancelId = 0 /\ cancelPc = "idle"

\* one call of isHoliday
SpecHoliday == HolidayInit /\ [][HolidayNext]_vars

\* a run of the commit command with any options
CmdInit ==
  /\ cmdOptions \in [pattern : BOOLEAN, dryRun : BOOLEAN, push : BOOLEAN]
  /\ cmdPc = "auth"
  /\ calls = <<>>
  /\ exitCode = -1
  /\ options = NoOptions /\ mpc = "idle" /\ row = 0 /\ col = 0
  /\ scheduledCommits = <<>> /\ cellLog = <<>>
  /\ items = <<>> /\ batchSize = 0 /\ bpc = "idle" /\ i = 0 /\ ist = <<>>
  /\ results = NoResults /\ progress = <<>>
  /\ impl = "none" /\ aopts = NoAdjustOptions /\ ainput = NoDate /\ adate = NoDate
  /\ apc = "idle"
  /\ vimpl = "none" /\ grid = <<>> /\ issues = <<>> /\ vpc = "idle"
  /\ commits = <<>> /\ cissues = <<>> /\ cpc = "idle"
  /\ himpl = "none" /\ hdate = NoDate /\ hresult = FALSE /\ hpc = "idle"
  /\ scheduled = <<>> /\ sortedCommits = <<>> /\ ci = 0 /\ successCount = 0 /\ failureCount = 0
  /\ errors = <<>> /\ attempted = <<>> /\ rpc = "idle"
  /\ commitTable = <<>> /\ scheduleTable = <<>> /\ tokenValid = FALSE /\ pendingCommits = <<>>
  /\ markIndex = 0 /\ cst = <<>> /\ github = {} /\ xpc = "idle" /\ cancelId = 0 /\ cancelPc = "idle"

\* one run of the commit command
SpecCmd == CmdInit /\ [][CmdNext]_vars

\* a call of executeScheduledCommits of the command line on any list of commits
RunnerInit ==
  /\ scheduled \in ScheduledLists
  /\ sortedCommits = <<>> /\ ci = 0 /\ successCount = 0 /\ failureCount = 0
  /\ errors = <<>> /\ attempted = <<>>
  /\ rpc = "call"
  /\ options = NoOptions /\ mpc = "idle" /\ row = 0 /\ col = 0
  /\ scheduledCommits = <<>> /\ cellLog = <<>>
  /\ items = <<>> /\ batchSize = 0 /\ bpc = "idle" /\ i = 0 /\ ist = <<>>
  /\ results = NoResults /\ progress = <<>>
  /\ impl = "none" /\ aopts = NoAdjustOptions /\ ainput = NoDate /\ adate = NoDate
  /\ apc = "idle"
  /\ vimpl = "none" /\ grid = <<>> /\ issues = <<>> /\ vpc = "idle"
  /\ commits = <<>> /\ cissues = <<>> /\ cpc = "idle"
  /\ himpl = "none" /\ hdate = NoDate /\ hresult = FALSE /\ hpc = "idle"
  /\ cmdOptions = NoCmdOptions /\ cmdPc = "idle" /\ calls = <<>> /\ exitCode = -1
  /\ commitTable = <<>> /\ scheduleTable = <<>> /\ tokenValid = FALSE /\ pendingCommits = <<>>
  /\ markIndex = 0 /\ cst = <<>> /\ github = {} /\ xpc = "idle" /\ cancelId = 0 /\ cancelPc = "idle"

\* one call of executeScheduledCommits of the command line
SpecRunner == RunnerInit /\ [][RunnerNext]_vars

\* a call of executeScheduledCommits and a call of cancelSchedule(id), both started,
\* on any table of pending commits
ServiceInit ==
  /\ commitTable \in CommitTables
  /\ scheduleTable = [s \in 1..NumSchedules |-> "PENDING"]
  /\ tokenValid \in BOOLEAN
  /\ pendingCommits = <<>>
  /\ markIndex = 0
  /\ cst = [k \in 1..Len(commitTable) |-> "new"]
  /\ github = {}
  /\ xpc = "call"
  /\ cancelId \in 1..NumSchedules
  /\ cancelPc = "call"
  /\ options = NoOptions /\ mpc = "idle" /\ row = 0 /\ col = 0
  /\ scheduledCommits = <<>> /\ cellLog = <<>>
  /\ items = <<>> /\ batchSize = 0 /\ bpc = "idle" /\ i = 0 /\ ist = <<>>
  /\ results = NoResults /\ progress = <<>>
  /\ impl = "none" /\ aopts = NoAdjustOptions /\ ainput = NoDate /\ adate = NoDate
  /\ apc = "idle"
  /\ vimpl = "none" /\ grid = <<>> /\ issues = <<>> /\ vpc = "idle"
  /\ commits = <<>> /\ cissues = <<>> /\ cpc = "idle"
  /\ himpl = "none" /\ hdate = NoDate /\ hresult = FALSE /\ hpc = "idle"
  /\ cmdOptions = NoCmdOptions /\ cmdPc = "idle" /\ calls = <<>> /\ exitCode = -1
  /\ scheduled = <<>> /\ sortedCommits = <<>> /\ ci = 0 /\ successCount = 0 /\ failureCount = 0
  /\ errors = <<>> /\ attempted = <<>> /\ rpc = "idle"

\* the two calls of the backend side by side
SpecService == ServiceInit /\ [][ServiceNext]_vars

Init == MapInit \/ BatchInit \/ AdjustInit \/ ValidateInit \/ CheckInit
          \/ BusinessHoursInit \/ CmdInit \/ HolidayInit \/ RunnerInit
          \/ ServiceInit

Next == MapNext \/ BatchNext \/ AdjustNext \/ ValidateNext \/ CheckNext
          \/ BusinessHoursNext \/ CmdNext \/ HolidayNext \/ RunnerNext
          \/ ServiceNext

Spec == Init /\ [][Next]_vars

-----------------------------------------------------------------------------
(* Properties of mapPatternToSchedule, under SpecMap *)

\* the positions of the returned commits that come from cell [r, c]
CommitsOfCell(r, c) ==
  { k \in 1..Len(scheduledCommits) : scheduledCommits[k].row = r /\ scheduledCommits[k].col = c }

\* the cells of the pattern, as <<row, col>> counted from 0
Cells == { rc \in (0..(rows - 1)) \X (0..(cols - 1)) : TRUE }

\* the grid has no row, or no column, or the range does not reach one day:
\* Math.ceil(days) < 1 exactly when endDate is not after startDate
InvalidInput ==
  \/ Len(options.pattern) = 0
  \/ Len(options.pattern[1]) = 0
  \/ options.endDate - options.startDate <= 0

AllZero == \A rc \in Cells : options.pattern[rc[1] + 1][rc[2] + 1] = 0

\* C1: whenever mapPatternToSchedule returns, the returned sequence is sorted
\* ascending by timestamp: each commit's date is at most the next one's.
C1_SortedSchedule ==
  mpc = "returned" =>
    \A k \in 1..(Len(scheduledCommits) - 1) :
      scheduledCommits[k].date <= scheduledCommits[k + 1].date

\* a schedule of three commits or more, from two cells, has been returned
C1_Witness ==
  /\ mpc = "returned"
  /\ Len(scheduledCommits) >= 3
  /\ \E k \in 1..(Len(scheduledCommits) - 1) :
       scheduledCommits[k].row * cols + scheduledCommits[k].col
         # scheduledCommits[k + 1].row * cols + scheduledCommits[k + 1].col

\* C5: no commit of the schedule comes from a cell whose row-major index idx has
\* idx * daysPerCell >= totalDays, and a call that dropped such cells does not throw.
C5_Truncation ==
  /\ \A k \in 1..Len(scheduledCommits) :
       (scheduledCommits[k].row * cols + scheduledCommits[k].col)
          * Max(1, (Ceil(options.endDate - options.startDate, SecondsPerDay) \div (rows * cols)))
        < Ceil(options.endDate - options.startDate, SecondsPerDay)
  /\ (\E n \in 1..Len(cellLog) : cellLog[n].what = "break") => mpc # "threw"

\* a schedule with commits is returned from a pattern with a cell beyond the range
C5_Witness ==
  /\ mpc = "returned"
  /\ scheduledCommits # <<>>
  /\ \E n \in 1..Len(cellLog) : cellLog[n].what = "break"

\* the number c of commits of a kept cell is min(cap, ceil(v / 100)), v being
\* intensity * density * noise in hundredths, and lies in 1..cap
CountAsClaimed(c, v, cap) ==
  /\ c <= cap
  /\ 100 * (c - 1) < v
  /\ 100 * c >= v \/ c = cap
  /\ c >= 1

\* the log entries of the cells that were in range, positive and not weekend-skipped
KeptEntries == { n \in 1..Len(cellLog) : cellLog[n].what \in {"emit", "throw"} }

\* C6 as claimed: for every kept cell with density > 0, the number of commits
\* emitted for it is min(maxCommitsPerDay, ceil(intensity * density * noise)),
\* which is at least 1 and at most maxCommitsPerDay.
C6_Original ==
  \A n \in KeptEntries :
    options.density > 0 =>
      CountAsClaimed(Cardinality(CommitsOfCell(cellLog[n].row, cellLog[n].col)),
                     options.pattern[cellLog[n].row + 1][cellLog[n].col + 1]
                       * options.density * cellLog[n].noise,
                     options.maxCommitsPerDay)

\* C6, amended: the same for maxCommitsPerDay >= 1.
C6_CountPerCell ==
  \A n \in KeptEntries :
    (options.density > 0 /\ options.maxCommitsPerDay >= 1) =>
      CountAsClaimed(Cardinality(CommitsOfCell(cellLog[n].row, cellLog[n].col)),
                     options.pattern[cellLog[n].row + 1][cellLog[n].col + 1]
                       * options.density * cellLog[n].noise,
                     options.maxCommitsPerDay)

\* a cell whose count the cap cut down (ceil(2 * 0.7 * 1.4) = 2 > 1), and one whose
\* count the ceiling decided, in schedules that were returned
C6_Witness ==
  /\ mpc = "returned"
  /\ options.density > 0
  /\ options.maxCommitsPerDay >= 1
  /\ \E n \in KeptEntries :
       /\ 100 * options.maxCommitsPerDay
            < options.pattern[cellLog[n].row + 1][cellLog[n].col + 1]
                * options.density * cellLog[n].noise
       /\ Cardinality(CommitsOfCell(cellLog[n].row, cellLog[n].col)) = options.maxCommitsPerDay

\* C7: an all-zero grid over a valid range gives an empty schedule and no error;
\* no commit comes from a cell of intensity <= 0, so every commit has weight >= 1.
C7_ZeroIntensitySkip ==
  /\ (~InvalidInput /\ AllZero) => mpc # "threw"
  /\ (mpc = "returned" /\ AllZero) => scheduledCommits = <<>>
  /\ \A k \in 1..Len(scheduledCommits) :
       /\ scheduledCommits[k].weight >= 1
       /\ options.pattern[scheduledCommits[k].row + 1][scheduledCommits[k].col + 1] > 0

\* an all-zero grid of two cells, both of them in range, has been mapped
C7_Witness ==
  /\ mpc = "returned"
  /\ AllZero
  /\ Len(cellLog) >= 2
  /\ \A n \in 1..Len(cellLog) : cellLog[n].what = "empty"

\* C8 as claimed: the call throws exactly when the input is invalid (no row, no
\* column, or totalDays < 1) and returns a schedule in every other case.
C8_Original ==
  mpc \in {"returned", "threw"} => (mpc = "threw" <=> InvalidInput)

\* C8, amended: on invalid input the call throws before any commit is generated; on
\* any other input it throws only for a cell whose count is negative, which takes a
\* negative density or a negative maxCommitsPerDay; a call that throws returns no
\* schedule.
C8_FailsOnInvalidInput ==
  /\ InvalidInput => (mpc \in {"call", "threw"} /\ scheduledCommits = <<>>)
  /\ (~InvalidInput /\ mpc = "threw") =>
       /\ options.density < 0 \/ options.maxCommitsPerDay < 0
       /\ cellLog # <<>>
       /\ cellLog[Len(cellLog)].what = "throw"
       /\ cellLog[Len(cellLog)].count < 0
  /\ mpc = "threw" => scheduledCommits = <<>>

\* the call has thrown on a pattern with cells whose endDate is not after startDate
C8_Witness ==
  /\ mpc = "threw"
  /\ Len(options.pattern) > 0
  /\ Len(options.pattern[1]) > 0
  /\ options.endDate <= options.startDate

-----------------------------------------------------------------------------
(* Properties of processBatchedCommits, under SpecBatch and LiveBatch *)

\* the items whose operation fails
Failing == { k \in 1..Len(items) : items[k] # "ok" }

\* the batch of item k, for batchSize >= 1
BatchOf(k) == (k - 1) \div batchSize

\* C2: for batchSize >= 1 the call returns succeeded = |items| - |F|, failed = |F|
\* and |F| errors, F being the items whose operation throws or rejects, whatever the
\* order in which the operations complete.
C2_PartialFailure ==
  (bpc = "returned" /\ batchSize >= 1) =>
    /\ results.succeeded = Len(items) - Cardinality(Failing)
    /\ results.failed = Cardinality(Failing)
    /\ Len(results.errors) = Cardinality(Failing)
    /\ { results.errors[n] : n \in 1..Len(results.errors) } = Failing

\* four items in batches of two or three, two of them failing, have been processed
C2_Witness ==
  /\ bpc = "returned"
  /\ batchSize \in {2, 3}
  /\ Len(items) = 4
  /\ Cardinality(Failing) = 2
  /\ results.succeeded = 2

\* C3: the batches are the runs of batchSize consecutive items, and no operation of
\* a later batch is started before every operation of each earlier batch has settled.
C3_BatchesSequential ==
  batchSize >= 1 =>
    /\ \E j \in 0..Len(items) :
         { k \in 1..Len(items) : ist[k] # "new" } = 1..Min(j * batchSize, Len(items))
    /\ \A a, b \in 1..Len(items) :
         (BatchOf(a) < BatchOf(b) /\ ist[b] # "new") => ist[a] \in {"waiting", "done"}

\* an operation of the second batch is running, the first batch having held two items
C3_Witness ==
  /\ batchSize >= 2
  /\ \E b \in 1..Len(items) : BatchOf(b) = 1 /\ ist[b] = "running"

\* C4: for every batchSize, every operation settling in the end, the call returns.
C4_AlwaysCompletes == <>(bpc = "returned")

\* C11: the errors of the result are in dispatch order: when two items both fail,
\* the error of the earlier item stands before the error of the later one.
C11_ErrorsInDispatchOrder ==
  \A m, n \in 1..Len(results.errors) :
    m < n => results.errors[m] < results.errors[n]

\* the chunks whose onProgress call has been made
Reported == Len(progress)

\* C21: onProgress is called once per chunk, after every operation of the chunk has
\* settled, the k-th call with (min(k * batchSize, n), n); the processed counts
\* strictly increase and the last call reports n; delayBetweenBatches is waited
\* after every chunk but the last.
C21_ProgressReports ==
  /\ Reported * batchSize = i + (IF bpc = "delay" THEN batchSize ELSE 0)
  /\ \A k \in 1..Len(items) : k <= Reported * batchSize => ist[k] = "done"
  /\ \A m \in 1..Reported : progress[m] = <<Min(m * batchSize, Len(items)), Len(items)>>
  /\ \A m \in 1..(Reported - 1) : progress[m][1] < progress[m + 1][1]
  /\ (bpc = "returned" /\ Len(items) > 0) => progress[Reported][1] = Len(items)
  /\ bpc = "delay" => Reported * batchSize < Len(items)

\* the same for a batchSize of 1 or more
C21_PositiveBatchSize == batchSize >= 1 => C21_ProgressReports

\* three chunks of a positive size have been reported and the call has returned
C21_ThreeChunks == bpc = "returned" /\ batchSize >= 1 /\ Reported = 3

\* the items of the chunk of item k, for batchSize >= 1
Siblings(k) == { b \in 1..Len(items) : BatchOf(b) = BatchOf(k) }

LastOfChunk(k) == k = Len(items) \/ k % batchSize = 0

\* C23: within a chunk a delayBetweenItems wait follows each item whose operation
\* succeeded and that is not the last of its chunk; a failed item and the last item
\* of the chunk end without a wait, and the chunk is over only once no item of it
\* is still in its wait.
C23_DelayBetweenItems ==
  [][batchSize >= 1 =>
       /\ \A k \in 1..Len(items) :
            /\ (ist[k] = "running" /\ items[k] = "ok" /\ ~LastOfChunk(k)) => ist'[k] \in {"running", "waiting"}
            /\ (ist[k] # "waiting" /\ ist'[k] = "waiting") => (ist[k] = "running" /\ items[k] = "ok" /\ ~LastOfChunk(k))
            /\ (ist[k] = "running" /\ (items[k] # "ok" \/ LastOfChunk(k))) => ist'[k] \in {"running", "done"}
            /\ (ist[k] = "new" /\ items[k] = "throw") => ist'[k] \in {"new", "done"}
       /\ (bpc = "await" /\ bpc' # "await") =>
            \A k \in 1..Len(items) : ist[k] # "new" => ist[k] = "done"]_vars

\* in a chunk of three still awaited, the first item is in its wait, the second has
\* failed and the third, the last, has succeeded, both without a wait
C23_Witness ==
  /\ batchSize = 3 /\ bpc = "await"
  /\ \E k \in 1..Len(items) :
       /\ Siblings(k) = {k, k + 1, k + 2}
       /\ items[k] = "ok" /\ ist[k] = "waiting"
       /\ items[k + 1] = "reject" /\ ist[k + 1] = "done"
       /\ items[k + 2] = "ok" /\ ist[k + 2] = "done"

-----------------------------------------------------------------------------
(* Properties of adjustDateForAuthenticity, under SpecAdjust and LiveAdjust *)

\* C9: the call terminates for every date and every combination of the options.
C9_Terminates == <>(apc = "returned")

\* C10 as claimed: with avoidWeekends and without workHoursOnly, a Saturday comes back
\* as the Friday before and a Sunday as the Monday after, at the same clock time.
C10_Original ==
  (apc = "returned" /\ aopts.avoidWeekends /\ ~aopts.workHoursOnly) =>
    /\ GetDay(ainput.day) = 6 => adate = [ainput EXCEPT !.day = @ - 1]
    /\ GetDay(ainput.day) = 0 => adate = [ainput EXCEPT !.day = @ + 1]

\* C10, amended: the same, unless avoidHolidays is set and that Friday or Monday is
\* a holiday for isHoliday.
C10_WeekendAdjustment ==
  (apc = "returned" /\ aopts.avoidWeekends /\ ~aopts.workHoursOnly) =>
    /\ (GetDay(ainput.day) = 6 /\ ~(aopts.avoidHolidays /\ isHoliday(ainput.day - 1)))
         => adate = [ainput EXCEPT !.day = @ - 1]
    /\ (GetDay(ainput.day) = 0 /\ ~(aopts.avoidHolidays /\ isHoliday(ainput.day + 1)))
         => adate = [ainput EXCEPT !.day = @ + 1]

\* commands/date.ts has returned the Friday for a Saturday, holidays being avoided
C10_Witness ==
  /\ apc = "returned"
  /\ impl = "date.ts"
  /\ aopts.avoidWeekends /\ ~aopts.workHoursOnly /\ aopts.avoidHolidays
  /\ GetDay(ainput.day) = 6
  /\ adate = [ainput EXCEPT !.day = @ - 1]

-----------------------------------------------------------------------------
(* Properties of validatePattern, under SpecValidate *)

\* the grid has a row and its first row has a cell: no early return
HasCells == Len(grid) >= 1 /\ Len(grid[1]) >= 1

\* the positions in issues of the issues of one kind
IssuesOf(kind) == { n \in 1..Len(issues) : issues[n].kind = kind }

\* a value (in halves) is an integer in [0, 4]
IntegerInRange(value) == value \in {0, 2, 4, 6, 8}

\* cell [r, c] (counted from 1) has exactly one issue, naming its position counted
\* from 0 and its value, if its value is no integer in [0, 4], and none otherwise
CellReported(r, c) ==
  LET named == { n \in IssuesOf("value") : issues[n].row = r - 1 /\ issues[n].col = c - 1 }
  IN IF IntegerInRange(grid[r][c])
       THEN named = {}
       ELSE Cardinality(named) = 1 /\ \A n \in named : issues[n].value = grid[r][c]

\* C12 as claimed: validatePattern reports exactly one issue, naming position and
\* value, for each cell that is no integer in [0, 4], and none for the other cells.
C12_Original ==
  vpc = "returned" =>
    \A r \in 1..Len(grid) : \A c \in 1..Len(grid[r]) : CellReported(r, c)

\* C12, amended: the same for a grid that has a row and whose first row has a cell;
\* any other grid gets the single issue of the early return and no cell issue.
C12_CellIssues ==
  vpc = "returned" =>
    /\ HasCells => \A r \in 1..Len(grid) : \A c \in 1..Len(grid[r]) : CellReported(r, c)
    /\ ~HasCells => (Len(issues) = 1 /\ IssuesOf("value") = {})
    /\ \A n \in IssuesOf("value") :
         /\ issues[n].row + 1 \in 1..Len(grid)
         /\ issues[n].col + 1 \in 1..Len(grid[issues[n].row + 1])

\* validate([[5]]) has returned one issue naming the value 5 at [0,0]
C12_Witness ==
  /\ vpc = "returned"
  /\ grid = << <<10>> >>
  /\ Len(issues) = 1
  /\ issues[1].kind = "value" /\ issues[1].value = 10
  /\ issues[1].row = 0 /\ issues[1].col = 0

\* C13: for a grid with a row and a non-empty first row, validatePattern reports
\* exactly one issue, naming both lengths, per row whose length differs from the
\* first row's, and none when every row has the first row's length.
C13_RowLengthIssues ==
  (vpc = "returned" /\ HasCells) =>
    \A r \in 1..Len(grid) :
      LET named == { n \in IssuesOf("rowLength") : issues[n].row = r }
      IN IF Len(grid[r]) = Len(grid[1])
           THEN named = {}
           ELSE /\ Cardinality(named) = 1
                /\ \A n \in named : issues[n].len = Len(grid[r]) /\ issues[n].first = Len(grid[1])

\* validate of a grid of shape [[1,2],[3]] has returned the mismatch of row 2
C13_Witness ==
  /\ vpc = "returned"
  /\ Len(grid) = 2 /\ Len(grid[1]) = 2 /\ Len(grid[2]) = 1
  /\ \E n \in IssuesOf("rowLength") : issues[n].len = 1 /\ issues[n].first = 2

RECURSIVE CellsFrom(_)
\* the number of cells of the grid from row r on: the sum of the rows' lengths
CellsFrom(r) == IF r > Len(grid) THEN 0 ELSE Len(grid[r]) + CellsFrom(r + 1)

\* C14: for a grid that is checked to the end, the size issue is there exactly when
\* the grid has more than 365 cells in all (the sum of the lengths of its rows),
\* and the count it names is that total.
C14_SizeIssue ==
  (vpc = "returned" /\ HasCells) =>
    /\ IssuesOf("size") # {} <=> CellsFrom(1) > SizeLimit
    /\ \A n \in IssuesOf("size") : issues[n].count = CellsFrom(1)

-----------------------------------------------------------------------------
(* Properties of checkScheduleAuthenticity, under SpecCheck *)

\* the positions in cissues of the issues of one kind
CheckIssuesOf(kind) == { n \in 1..Len(cissues) : cissues[n].kind = kind }

\* the calendar day and the hour of the day of an instant: days of 86400 seconds
\* counted from the midnight of day 0
DayOfInstant(t) == t \div 86400
HourOfInstant(t) == (t % 86400) \div 3600

\* the commits of calendar day d
OnDay(d) == { n \in 1..Len(commits) : DayOfInstant(commits[n]) = d }

\* the commits at instant t
AtInstant(t) == { n \in 1..Len(commits) : commits[n] = t }

\* the commits whose hour is in [1, 5]
InSmallHours == { n \in 1..Len(commits) : HourOfInstant(commits[n]) \in 1..5 }

\* C15: one issue naming the day and its count for every calendar day that holds
\* more than 15 commits, none for a day that holds 15 or fewer.
C15_DailyBurst ==
  cpc = "returned" =>
    /\ \A n \in 1..Len(commits) :
         LET d == DayOfInstant(commits[n])
             named == { k \in CheckIssuesOf("day") : cissues[k].day = d }
         IN IF Cardinality(OnDay(d)) > 15
              THEN Cardinality(named) = 1
                   /\ \A k \in named : cissues[k].count = Cardinality(OnDay(d))
              ELSE named = {}
    /\ \A k \in CheckIssuesOf("day") : OnDay(cissues[k].day) # {}

\* 16 commits of one calendar day have given an issue with the count 16
C15_Witness ==
  /\ cpc = "returned"
  /\ Len(commits) = 16
  /\ \A n \in 1..Len(commits) : DayOfInstant(commits[n]) = DayOfInstant(commits[1])
  /\ \E k \in CheckIssuesOf("day") : cissues[k].count = 16

\* C16: the equal-interval issue is reported exactly when the schedule has more
\* than 5 commits and every gap between consecutive commits is the same.
C16_UniformSpacing ==
  cpc = "returned" =>
    /\ Cardinality(CheckIssuesOf("spacing")) <= 1
    /\ CheckIssuesOf("spacing") # {} <=>
         /\ Len(commits) > 5
         /\ \A a, b \in 1..(Len(commits) - 1) :
              commits[a + 1] - commits[a] = commits[b + 1] - commits[b]

\* 6 commits exactly 3600 seconds apart have triggered the issue
C16_Witness ==
  /\ cpc = "returned"
  /\ Len(commits) = 6
  /\ \A a \in 1..5 : commits[a + 1] - commits[a] = 3600
  /\ CheckIssuesOf("spacing") # {}

\* C17: exactly one issue, naming the number of commits, per instant that 2 or
\* more commits share, and none for the instant of a single commit.
C17_Collisions ==
  cpc = "returned" =>
    /\ \A n \in 1..Len(commits) :
         LET t == commits[n]
             named == { k \in CheckIssuesOf("time") : cissues[k].time = t }
         IN IF Cardinality(AtInstant(t)) >= 2
              THEN Cardinality(named) = 1
                   /\ \A k \in named : cissues[k].count = Cardinality(AtInstant(t))
              ELSE named = {}
    /\ \A k \in CheckIssuesOf("time") : AtInstant(cissues[k].time) # {}

\* an instant shared by 2 commits has its one issue, the schedule holding commits
\* that share their instant with no other as well
C17_Witness ==
  /\ cpc = "returned"
  /\ Cardinality(CheckIssuesOf("time")) = 1
  /\ \E k \in CheckIssuesOf("time") : cissues[k].count = 2
  /\ \E n \in 1..Len(commits) : Cardinality(AtInstant(commits[n])) = 1

\* C18: the 1-5 AM issue is reported exactly when the commits whose hour is in
\* [1, 5] are strictly more than 25% of all commits; an empty schedule gives no issue.
C18_OffHours ==
  cpc = "returned" =>
    /\ Cardinality(CheckIssuesOf("hours")) <= 1
    /\ CheckIssuesOf("hours") # {} <=> 4 * Cardinality(InSmallHours) > Len(commits)
    /\ \A k \in CheckIssuesOf("hours") : cissues[k].count = Cardinality(InSmallHours)
    /\ commits = <<>> => cissues = <<>>

\* exactly 25% of the commits, 5 of 20, are at the small hours and no issue names them
C18_Witness ==
  /\ cpc = "returned"
  /\ Len(commits) = 20
  /\ Cardinality(InSmallHours) = 5
  /\ CheckIssuesOf("hours") = {}

-----------------------------------------------------------------------------
(* Properties of isBusinessHours, under SpecBusinessHours *)

\* C19: in both implementations isBusinessHours is true exactly when the hour h of
\* the date has 9 <= h < 17; it is false for every time of the 17:00 hour.
C19_BusinessHours ==
  hpc = "returned" => (hresult <=> (9 <= hdate.hour /\ hdate.hour < 17))

-----------------------------------------------------------------------------
(* Properties of the commit command, under SpecCmd *)

\* the functions called so far
Called == { calls[n] : n \in 1..Len(calls) }

\* C20: with --dry-run, whatever the user answers, executeScheduledCommits and
\* pushToGitHub are never called.
C20_DryRunCreatesNothing ==
  cmdOptions.dryRun =>
    /\ "executeScheduledCommits" \notin Called
    /\ "pushToGitHub" \notin Called

\* a dry run, with --push, has shown its preview and has exited with code 0
C20_Witness ==
  /\ cmdOptions.dryRun /\ cmdOptions.push
  /\ cmdPc = "exited" /\ exitCode = 0
  /\ "dryRunNotice" \in Called

-----------------------------------------------------------------------------
(* Properties of isHoliday, under SpecHoliday *)

\* the holidays of the table: the fixed dates, the last Monday of May, the first
\* Monday of September and the fourth Thursday of November
TableHoliday(d) ==
  \/ GetMonth(d) = 0 /\ GetDate(d) = 1
  \/ GetMonth(d) = 6 /\ GetDate(d) = 4
  \/ GetMonth(d) = 11 /\ GetDate(d) = 25
  \/ GetMonth(d) = 4 /\ GetDay(d) = 1 /\ GetDate(d) + 7 > 31
  \/ GetMonth(d) = 8 /\ GetDay(d) = 1 /\ GetDate(d) <= 7
  \/ GetMonth(d) = 10 /\ GetDay(d) = 4 /\ GetDate(d) \in 22..28

\* C24: isHoliday is true for exactly the dates of the table: January 1, July 4,
\* December 25, the last Monday of May, the first Monday of September and the
\* fourth Thursday of November.
C24_HolidayTable ==
  (hpc = "returned" /\ himpl = "isHoliday") => (hresult <=> TableHoliday(hdate.day))

-----------------------------------------------------------------------------
(* Properties of the events of mapPatternToSchedule, under SpecMap *)

\* C25: with workHoursOnly every event of the schedule mapPatternToSchedule returns
\* has a local clock hour h with 9 <= h < 17, whatever the random choices.
C25_WorkHoursOnly ==
  (mpc = "returned" /\ options.workHoursOnly) =>
    \A n \in 1..Len(scheduledCommits) :
      /\ 9 <= HourOfInstant(scheduledCommits[n].date)
      /\ HourOfInstant(scheduledCommits[n].date) < 17

\* a schedule made with workHoursOnly holds an event of the hour 9 and one of the hour 16
C25_Witness ==
  /\ mpc = "returned" /\ options.workHoursOnly
  /\ \E m, n \in 1..Len(scheduledCommits) :
       /\ HourOfInstant(scheduledCommits[m].date) = 9
       /\ HourOfInstant(scheduledCommits[n].date) = 16

\* the cells the loops went through up to the tests of their value: the ones with
\* an entry of the log other than a break
Visited == { <<cellLog[n].row, cellLog[n].col>> : n \in { m \in 1..Len(cellLog) : cellLog[m].what # "break" } }

\* the cells left out by the truncation
Dropped == Cells \ Visited

\* the range in days and the size of the pattern, from the options
RangeDays == Ceil(options.endDate - options.startDate, SecondsPerDay)
PatternSize == Len(options.pattern) * Len(options.pattern[1])

\* C26: cells are left out by the truncation exactly when the range is smaller than
\* the pattern, which is when the wrapper warns: with totalDays >= rows * cols every
\* cell index idx has idx * daysPerCell < totalDays and no cell is dropped, with
\* totalDays < rows * cols at least one cell is dropped.
C26_TruncationIffSmaller ==
  mpc = "returned" =>
    /\ RangeDays >= PatternSize =>
         /\ \A idx \in 0..(PatternSize - 1) : idx * daysPerCell < RangeDays
         /\ Dropped = {}
    /\ RangeDays < PatternSize => Dropped # {}
    /\ WarnsTruncation(options) <=> Dropped # {}

\* a call on a range of one day and a pattern of two cells has returned commits of
\* the first cell and dropped the second
C26_Witness ==
  /\ mpc = "returned"
  /\ RangeDays < PatternSize
  /\ Dropped # {} /\ Visited # {}
  /\ scheduledCommits # <<>>

\* the calendar day of the k-th event, and the index of the cell it was made for
DayOfEvent(k) == DayOfInstant(scheduledCommits[k].date)
IndexOfEvent(k) == scheduledCommits[k].row * Len(options.pattern[1]) + scheduledCommits[k].col

\* the events of the schedule that lie on calendar day d
EventsOn(d) == { k \in 1..Len(scheduledCommits) : DayOfEvent(k) = d }

\* C27: every event made for cell idx lies on the calendar day startDate + idx *
\* daysPerCell, distinct cells lie on distinct days, so no day of a returned schedule
\* holds more than maxCommitsPerDay events, and with the default cap of 5 the checker
\* reports no day with too many commits.
C27_OneCellPerDay ==
  /\ \A k \in 1..Len(scheduledCommits) :
       DayOfEvent(k) = DayOfInstant(options.startDate)
                         + IndexOfEvent(k) * Max(1, RangeDays \div PatternSize)
  /\ \A k, l \in 1..Len(scheduledCommits) :
       IndexOfEvent(k) # IndexOfEvent(l) => DayOfEvent(k) # DayOfEvent(l)
  /\ mpc = "returned" =>
       /\ \A k \in 1..Len(scheduledCommits) :
            Cardinality(EventsOn(DayOfEvent(k))) <= options.maxCommitsPerDay
       /\ options.maxCommitsPerDay = 5 =>
            DayIssues([k \in 1..Len(scheduledCommits) |-> scheduledCommits[k].date]) = <<>>

\* a schedule made with a cap of 1 holds one event for each of two cells, on two
\* days, the count of a cell having been cut down from 2 to the cap
C27_Witness ==
  /\ mpc = "returned"
  /\ options.maxCommitsPerDay = 1
  /\ Len(scheduledCommits) = 2
  /\ IndexOfEvent(1) # IndexOfEvent(2)
  /\ \E n \in 1..Len(cellLog) :
       cellLog[n].what = "emit" /\ cellLog[n].count = 1
         /\ Ceil(2 * options.density * cellLog[n].noise, 100) = 2

-----------------------------------------------------------------------------
(* Properties of the date adjustDateForAuthenticity returns, under SpecAdjust *)

\* C28: whenever adjustDateForAuthenticity returns, with avoidWeekends the date
\* returned is neither a Saturday nor a Sunday, and with avoidHolidays it is not a
\* date for which isHoliday is true.
C28_ReturnedDateAvoids ==
  apc = "returned" =>
    /\ aopts.avoidWeekends => GetDay(adate.day) \notin {0, 6}
    /\ aopts.avoidHolidays => ~isHoliday(adate.day)

\* a Sunday was moved to the Monday after it, a holiday, and from there to the
\* Tuesday, which was returned
C28_Witness ==
  /\ apc = "returned" /\ impl = "date.ts"
  /\ aopts.avoidWeekends /\ aopts.avoidHolidays
  /\ GetDay(ainput.day) = 0
  /\ isHoliday(ainput.day + 1)
  /\ adate.day = ainput.day + 2

-----------------------------------------------------------------------------
(* Properties of executeScheduledCommits of the command line, under SpecRunner *)

\* the attempts that have ended: all of them but the one in flight
Ended == IF rpc = "attempt" THEN Len(attempted) - 1 ELSE Len(attempted)

\* the places, in the argument, of the commits attempted so far
AttemptedIds == { attempted[n].id : n \in 1..Len(attempted) }

-----------------------------------------------------------------------------
(* Properties of the backend, under SpecService *)

\* the rows of the schedule that cancelSchedule was called on
RowsOfCancelled == { c \in 1..Len(commitTable) : commitTable[c].scheduleId = cancelId }

\* once cancelSchedule has returned, no commit of its schedule is created on GitHub
NoCommitAfterCancel ==
  cancelPc = "returned" => \A c \in RowsOfCancelled : c \in github' => c \in github

\* once cancelSchedule has returned, no row of its schedule becomes COMPLETED
NoCompletionAfterCancel ==
  cancelPc = "returned" =>
    \A c \in RowsOfCancelled :
      commitTable'[c].status = "COMPLETED" => commitTable[c].status = "COMPLETED"

\* a status changes from PENDING only, to COMPLETED, FAILED or CANCELLED
StatusMoves ==
  \A c \in 1..Len(commitTable) :
    commitTable'[c].status # commitTable[c].status =>
      /\ commitTable[c].status = "PENDING"
      /\ commitTable'[c].status \in {"COMPLETED", "FAILED", "CANCELLED"}

\* C30: once cancelSchedule(id) has completed, no commit of schedule id is executed
\* against GitHub or moved to COMPLETED, however the steps of cancelSchedule and of a
\* running executeScheduledCommits interleave; a status only moves from PENDING to
\* COMPLETED, FAILED or CANCELLED and never leaves CANCELLED.
C30_CancelStopsCommits ==
  [][NoCommitAfterCancel /\ NoCompletionAfterCancel /\ StatusMoves]_vars

=============================================================================
